---------------------------- MODULE Spec2Model ----------------------------
(***************************************************************************)
(* ariadne-dbt: the manifest indexer (indexer.py), the DAG traversal       *)
(* (graph.py), the hybrid search (search.py) and the capsule builder       *)
(* (capsule.py), modelled over a small universe of dbt node ids.           *)
(*                                                                         *)
(* The SQLite store is two copies of the tables: `store` is what has been  *)
(* committed (what any other handle reads), `conn` is what the indexer's   *)
(* own connection sees (committed rows plus its pending transaction).      *)
(***************************************************************************)
EXTENDS Integers, Sequences, FiniteSets, TLC

VARIABLES
    store,      \* committed tables of the index database
    conn,       \* the tables as the Indexer connection sees them
    inTx,       \* TRUE while the Indexer connection has a pending transaction
    pc,         \* position of the running index_* call ("idle" when none)
    manifest,   \* the artifact being ingested
    done,       \* history: the committed store at the last completed index_manifest
    before,     \* history: the committed store when the last index_manifest call started
    outcome,    \* history: how the last index_manifest ended
    seen,       \* what a reader on another handle has read so far
    bfsCall,    \* the last GraphOps.upstream / downstream call and its result
    capsule,    \* the last CapsuleBuilder.build call and its result
    call        \* the last call of another query operation and its result

vars == << store, conn, inTx, pc, manifest, done, before, outcome, seen, bfsCall, capsule, call >>

---------------------------------------------------------------------------
(* Node ids.  IdSeq lists them in Python string order, which is the order  *)
(* sorted() uses for the id component of a sort key.                       *)

IdSeq ==
    << "exposure.e", "model.a", "model.b", "model.c", "model.d", "model.e", "model.f",
       "model.g", "model.h", "source.s", "test.t1", "test.t2", "test.t3" >>

AllIds == { IdSeq[i] : i \in 1..Len(IdSeq) }

IdRank(id) == CHOOSE i \in 1..Len(IdSeq) : IdSeq[i] = id

\* the ids of the models that the manifests below declare
ModelIds == { "model.a", "model.b", "model.c" }
SourceIds == { "source.s" }
ExposureIds == { "exposure.e" }
TestIds == { "test.t1", "test.t2", "test.t3" }

\* str.startswith(prefix)
StrStartsWith(str, prefix) ==
    Len(str) >= Len(prefix) /\ SubSeq(str, 1, Len(prefix)) = prefix

\* str.lower() on the characters that occur (ASCII letters)
UpperCase == "ABCDEFGHIJKLMNOPQRSTUVWXYZ"
LowerCase == "abcdefghijklmnopqrstuvwxyz"

LowerChar(c) ==
    IF \E i \in 1..Len(UpperCase) : SubSeq(UpperCase, i, i) = c
    THEN LET i == CHOOSE j \in 1..Len(UpperCase) : SubSeq(UpperCase, j, j) = c
         IN  SubSeq(LowerCase, i, i)
    ELSE c

RECURSIVE StrLower(_)
StrLower(str) ==
    IF Len(str) = 0 THEN str
    ELSE LowerChar(SubSeq(str, 1, 1)) \o StrLower(SubSeq(str, 2, Len(str)))

\* kw in text
StrContains(text, kw) ==
    \E i \in 1..(Len(text) - Len(kw) + 1) : SubSeq(text, i, i + Len(kw) - 1) = kw

IsModelId(id) == StrStartsWith(id, "model.")
IsSourceId(id) == StrStartsWith(id, "source.")
IsExposureId(id) == StrStartsWith(id, "exposure.")
IsTestId(id) == StrStartsWith(id, "test.")

NoValue == "None"

---------------------------------------------------------------------------
(* Generic helpers *)

Max(a, b) == IF a >= b THEN a ELSE b
Min(a, b) == IF a <= b THEN a ELSE b

RECURSIVE SumOver(_, _)
SumOver(S, f) ==
    IF S = {} THEN 0
    ELSE LET x == CHOOSE y \in S : TRUE IN f[x] + SumOver(S \ {x}, f)

SeqToSet(s) == { s[i] : i \in 1..Len(s) }

\* The ids of S as a sequence in Python string order
RECURSIVE IdsInOrder(_)
IdsInOrder(S) ==
    IF S = {} THEN << >>
    ELSE LET x == CHOOSE y \in S : \A z \in S : IdRank(y) <= IdRank(z)
         IN << x >> \o IdsInOrder(S \ {x})

---------------------------------------------------------------------------
(* graph.py: GraphOps._bfs, upstream, downstream.  E is the edges table, a *)
(* set of << parent_id, child_id >> rows.                                  *)

\* SELECT parent_id FROM edges WHERE child_id = ? / SELECT child_id ... WHERE parent_id = ?
\* (SQLite returns the rows in index order; the traversal's result does not depend on it)
BfsNeighbors(E, node_id, direction) ==
    IF direction = "up"
    THEN IdsInOrder({ e[1] : e \in { x \in E : x[2] = node_id } })
    ELSE IdsInOrder({ e[2] : e \in { x \in E : x[1] = node_id } })

\* for nid in neighbors: if nid == start or nid in visited: continue; visited[nid] = next_dist; queue.append(...)
RECURSIVE BfsVisit(_, _, _, _, _)
BfsVisit(neighbors, start, next_dist, queue, visited) ==
    IF neighbors = << >> THEN [queue |-> queue, visited |-> visited]
    ELSE LET nid == Head(neighbors) IN
         IF nid = start \/ nid \in DOMAIN visited
         THEN BfsVisit(Tail(neighbors), start, next_dist, queue, visited)
         ELSE BfsVisit(Tail(neighbors), start, next_dist,
                       Append(queue, << nid, next_dist >>),
                       (nid :> next_dist) @@ visited)

\* while queue: node_id, dist = queue.popleft(); if dist >= depth: continue; ...
RECURSIVE BfsLoop(_, _, _, _, _, _)
BfsLoop(E, start, direction, depth, queue, visited) ==
    IF queue = << >> THEN visited
    ELSE LET node_id == Head(queue)[1]
             dist == Head(queue)[2]
         IN  IF dist >= depth
             THEN BfsLoop(E, start, direction, depth, Tail(queue), visited)
             ELSE LET r == BfsVisit(BfsNeighbors(E, node_id, direction), start,
                                    dist + 1, Tail(queue), visited)
                  IN  BfsLoop(E, start, direction, depth, r.queue, r.visited)

\* sorted(visited.items(), key=lambda x: (x[1], x[0]))
RECURSIVE SortByDistThenId(_)
SortByDistThenId(visited) ==
    IF DOMAIN visited = {} THEN << >>
    ELSE LET first == CHOOSE n \in DOMAIN visited : \A m \in DOMAIN visited :
                          \/ visited[n] < visited[m]
                          \/ visited[n] = visited[m] /\ IdRank(n) <= IdRank(m)
             rest == [ m \in DOMAIN visited \ {first} |-> visited[m] ]
         IN  << << first, visited[first] >> >> \o SortByDistThenId(rest)

\* A plausible slip: `if dist > depth: continue` expands the frontier one hop too far
bfs_expands_at_depth(E, start, direction, depth) ==
    IF depth <= 0 THEN << >>
    ELSE SortByDistThenId(BfsLoop(E, start, direction, depth + 1, << << start, 0 >> >>, << >>))

_bfs(E, start, direction, depth) ==
    IF depth <= 0 THEN << >>
    ELSE SortByDistThenId(BfsLoop(E, start, direction, depth, << << start, 0 >> >>, << >>))

upstream(E, unique_id, depth) == _bfs(E, unique_id, "up", depth)
downstream(E, unique_id, depth) == _bfs(E, unique_id, "down", depth)

---------------------------------------------------------------------------
(* The store (schema.sql).  Every table is a set of rows; the key of each  *)
(* table is unique: models, sources, tests, macros, exposures by           *)
(* unique_id, columns by (model_id, name), source_columns by               *)
(* (source_id, name), edges by (parent_id, child_id).                      *)

SqlNull == "NULL"

\* centrality is a REAL: a fraction << numerator, denominator >> with a
\* positive denominator; NullReal is the SQL NULL of that column
Real(n, d) == << n, d >>
NullReal == << 0, 0 >>
IsNullReal(x) == x[2] = 0
RealEq(x, y) == ~ IsNullReal(x) /\ ~ IsNullReal(y) /\ x[1] * y[2] = y[1] * x[2]

EmptyStore ==
    [ models |-> {}, columns |-> {}, sources |-> {}, source_columns |-> {},
      tests |-> {}, macros |-> {}, exposures |-> {}, edges |-> {},
      search_index |-> {}, index_metadata |-> "" ]

\* Column defaults of a freshly inserted models row
DefaultUpstreamCount == 0
DefaultDownstreamCount == 0
DefaultCentrality == Real(0, 1)

\* columns.model_id REFERENCES models ON DELETE CASCADE, with PRAGMA foreign_keys = ON
CascadeColumns(columns, models) ==
    { c \in columns : \E m \in models : m.unique_id = c.model_id }

\* source_columns.source_id REFERENCES sources ON DELETE CASCADE
CascadeSourceColumns(source_columns, sources) ==
    { c \in source_columns : \E s \in sources : s.unique_id = c.source_id }

---------------------------------------------------------------------------
(* indexer.py: layer detection *)

LayerSeq == << "staging", "intermediate", "marts" >>

_LAYER_KEYWORDS ==
    [ staging |-> { "staging", "stg" },
      intermediate |-> { "intermediate", "int" },
      marts |-> { "marts", "mart", "fct", "dim", "agg", "rpt", "report" } ]

\* the keywords kw with c.startswith(kw) or ("/" + kw) in c or c == kw
KeywordsMatching(c) ==
    { kw \in UNION { _LAYER_KEYWORDS[l] : l \in DOMAIN _LAYER_KEYWORDS } :
        StrStartsWith(c, kw) \/ StrContains(c, "/" \o kw) \/ c = kw }

\* A plausible slip: the loop keeps going, so the last matching layer is returned
RECURSIVE first_layer_last_match(_, _)
first_layer_last_match(candidates, i) ==
    IF i > Len(LayerSeq) THEN "other"
    ELSE LET later == first_layer_last_match(candidates, i + 1)
         IN  IF later # "other" THEN later
             ELSE IF \E c \in candidates : KeywordsMatching(c) \cap _LAYER_KEYWORDS[LayerSeq[i]] # {}
             THEN LayerSeq[i]
             ELSE "other"

RECURSIVE FirstLayer(_, _)
FirstLayer(candidates, i) ==
    IF i > Len(LayerSeq) THEN "other"
    ELSE IF \E c \in candidates : KeywordsMatching(c) \cap _LAYER_KEYWORDS[LayerSeq[i]] # {}
         THEN LayerSeq[i]
         ELSE FirstLayer(candidates, i + 1)

_detect_layer(fqn, name, tags) ==
    LET path_parts == IF Len(fqn) > 1 THEN { fqn[i] : i \in 2..Len(fqn) } ELSE {}
    IN  FirstLayer({ StrLower(c) : c \in path_parts \cup { name } \cup tags }, 1)

---------------------------------------------------------------------------
(* Manifests (manifest.json after json.load).  parent_map is the set of    *)
(* << child_id, parent_id >> pairs of the artifact's child -> [parents]    *)
(* map; JsonNull stands for a JSON null where a string is expected.        *)

JsonNull == "null"

ModelNodeA(cols) ==
    [ resource_type |-> "model", unique_id |-> "model.a", name |-> "stg_a",
      fqn |-> << "pkg", "staging", "stg_a" >>, tags |-> {}, materialized |-> "view",
      compiled_len |-> 40, compiled_macros |-> {}, columns |-> cols,
      depends_on |-> { "source.s" } ]

ModelNodeB(cols) ==
    [ resource_type |-> "model", unique_id |-> "model.b", name |-> "fct_b",
      fqn |-> << "pkg", "marts", "fct_b" >>, tags |-> {}, materialized |-> "table",
      compiled_len |-> 400, compiled_macros |-> { "cents" }, columns |-> cols,
      depends_on |-> { "model.a" } ]

ModelNodeC(name) ==
    [ resource_type |-> "model", unique_id |-> "model.c", name |-> name,
      fqn |-> << "pkg", "misc", name >>, tags |-> {}, materialized |-> "table",
      compiled_len |-> 120, compiled_macros |-> {}, columns |-> { "id" },
      depends_on |-> { "model.b" } ]

GenericTest(id, kind, model, column) ==
    [ resource_type |-> "test", unique_id |-> id, name |-> "t",
      test_metadata |-> [ present |-> TRUE, name |-> kind, column_name |-> column ],
      depends_on |-> << model >> ]

SingularTest(id, name, deps) ==
    [ resource_type |-> "test", unique_id |-> id, name |-> name,
      test_metadata |-> [ present |-> FALSE, name |-> "", column_name |-> "" ], depends_on |-> deps ]

SourceS(cols) == [ unique_id |-> "source.s", name |-> "s", columns |-> cols ]

MacroCents == [ unique_id |-> "macro.cents", name |-> "cents", package_name |-> "pkg" ]

ExposureE == [ unique_id |-> "exposure.e", name |-> "e" ]

ModelChoices ==
    << { ModelNodeA({ "id", "x" }), ModelNodeB({ "id", "x" }), ModelNodeC("dim_c") },
       { ModelNodeA({ "id" }), ModelNodeB({ "id", "x" }) },
       { ModelNodeB({}), ModelNodeC("util_c") } >>

TestChoices ==
    << { GenericTest("test.t1", "not_null", "model.a", "id"),
         GenericTest("test.t2", "unique", "model.a", "id"),
         GenericTest("test.t3", "relationships", "model.b", "id") },
       { GenericTest("test.t1", "unique", "model.a", "id"),
         GenericTest("test.t2", "not_null", "model.b", "ghost"),
         SingularTest("test.t3", "unique", << "source.s", "model.b" >>) },
       { GenericTest("test.t1", "expression_is_true", "model.a", "") } >>

ParentMapChoices ==
    << { << "model.a", "source.s" >>, << "model.b", "model.a" >>, << "model.c", "model.b" >>,
         << "exposure.e", "model.b" >>, << "test.t1", "model.a" >>, << "model.b", "macro.cents" >> },
       { << "model.b", "model.a" >>, << "model.c", "model.a" >>, << "model.c", "model.b" >> },
       { << "model.b", "model.a" >>, << "model.a", "model.b" >>, << "model.a", "model.a" >>,
         << "model.c", "model.a" >> },
       { << "test.t1", "source.s" >>, << "model.b", "test.t1" >>, << "exposure.e", "exposure.e" >> },
       {} >>

\* which models, tests and parent_map each manifest combines
ManifestShapes ==
    { << 1, 1, 1 >>, << 1, 2, 3 >>, << 1, 3, 5 >>, << 2, 2, 2 >>,
      << 2, 1, 4 >>, << 3, 3, 5 >>, << 3, 1, 2 >>, << 2, 3, 4 >> }

GoodManifests ==
    { [ valid_json |-> TRUE, metadata |-> "gen1",
        nodes |-> ModelChoices[k[1]] \cup TestChoices[k[2]],
        sources |-> IF k[1] = 1 THEN { SourceS({ "sid" }) } ELSE IF k[1] = 2 THEN { SourceS({}) } ELSE {},
        macros |-> IF k[2] = 1 THEN { MacroCents } ELSE {},
        exposures |-> IF k[3] = 1 THEN { ExposureE } ELSE {},
        parent_map |-> ParentMapChoices[k[3]] ] : k \in ManifestShapes }

\* Artifacts on which ingestion raises: unparsable JSON, a model node whose
\* name is null (name.lower() in _detect_layer), a parent_map entry that is
\* null (parent_id.startswith in _insert_edges)
CorruptManifests ==
    { [ valid_json |-> FALSE, metadata |-> "gen2", nodes |-> {}, sources |-> {}, macros |-> {},
        exposures |-> {}, parent_map |-> {} ],
      [ valid_json |-> TRUE, metadata |-> "gen2",
        nodes |-> { ModelNodeA({ "id" }), ModelNodeC(JsonNull) }, sources |-> {}, macros |-> {},
        exposures |-> {}, parent_map |-> {} ],
      [ valid_json |-> TRUE, metadata |-> "gen2",
        nodes |-> { ModelNodeA({ "x" }), GenericTest("test.t1", "relationships", "model.a", "x") },
        sources |-> {}, macros |-> {}, exposures |-> { ExposureE },
        parent_map |-> { << "model.a", JsonNull >> } ] }

Manifests == GoodManifests \cup CorruptManifests

NoManifest == [ valid_json |-> FALSE, metadata |-> "", nodes |-> {}, sources |-> {}, macros |-> {},
                exposures |-> {}, parent_map |-> {} ]

---------------------------------------------------------------------------
(* indexer.py: parsing helpers *)

ModelNodes(M) == { n \in M.nodes : n.resource_type = "model" }
TestNodes(M) == { n \in M.nodes : n.resource_type = "test" }

_node_to_model(node) ==
    [ unique_id |-> node.unique_id, name |-> node.name,
      layer |-> _detect_layer(node.fqn, node.name, node.tags),
      materialization |-> node.materialized,
      compiled_len |-> node.compiled_len, compiled_macros |-> node.compiled_macros,
      depends_on_nodes |-> node.depends_on, columns |-> node.columns ]

KnownTestTypes == { "not_null", "unique", "accepted_values", "relationships" }

\* for dep in depends_on.nodes: if dep.startswith("model."): model_id = dep; break
RECURSIVE FirstModelDep(_)
FirstModelDep(deps) ==
    IF deps = << >> THEN SqlNull
    ELSE IF IsModelId(Head(deps)) THEN Head(deps) ELSE FirstModelDep(Tail(deps))

_node_to_test(node) ==
    LET has_meta == node.test_metadata.present
        raw_type == StrLower(IF has_meta THEN node.test_metadata.name ELSE node.name)
    IN  [ unique_id |-> node.unique_id, name |-> node.name,
          test_type |-> IF raw_type \in KnownTestTypes THEN raw_type
                        ELSE IF has_meta THEN "generic" ELSE "singular",
          model_id |-> FirstModelDep(node.depends_on),
          column_name |-> IF has_meta THEN node.test_metadata.column_name ELSE "" ]

\* An entry of a node's refs or sources list as json.load gives it: a string
\* (value), a list (items), an object (with or without a "name" key, value
\* is the name) or a number
JsonEntry(kind, value, items, has_name) ==
    [ kind |-> kind, value |-> value, items |-> items, has_name |-> has_name ]

\* node.get("refs", []) and node.get("sources", [])
RefsOf(node) == IF "refs" \in DOMAIN node THEN node.refs ELSE << >>
SourcesOf(node) == IF "sources" \in DOMAIN node THEN node.sources ELSE << >>

\* r["name"] if isinstance(r, dict) else (r[0] if isinstance(r, list) else r),
\* and the refs: list[str] field of ModelNode: the exception the entry ends
\* in, or "none"
RefRaises(r) ==
    CASE r.kind = "object" -> IF r.has_name THEN "none" ELSE "KeyError"
      [] r.kind = "list" -> IF r.items = << >> THEN "IndexError" ELSE "none"
      [] r.kind = "string" -> "none"
      [] OTHER -> "ValidationError"

\* ".".join(s) if isinstance(s, list) else s, and the sources: list[str]
\* field of ModelNode
SourceRaises(s) ==
    CASE s.kind = "list" -> "none"
      [] s.kind = "string" -> "none"
      [] OTHER -> "ValidationError"

NodeToModelRaises(node) ==
    \/ \E i \in 1..Len(RefsOf(node)) : RefRaises(RefsOf(node)[i]) # "none"
    \/ \E i \in 1..Len(SourcesOf(node)) : SourceRaises(SourcesOf(node)[i]) # "none"

\* _parse_nodes raises when a model node cannot be turned into a ModelNode
ParseNodesRaises(M) ==
    \E n \in ModelNodes(M) : n.name = JsonNull \/ NodeToModelRaises(n)

ParsedModels(M) == { _node_to_model(n) : n \in ModelNodes(M) }
ParsedTests(M) == { _node_to_test(n) : n \in TestNodes(M) }

---------------------------------------------------------------------------
(* indexer.py: insertion helpers, each a function from the tables the      *)
(* connection sees to the tables after the helper's statements.            *)

ModelRow(m) ==
    [ unique_id |-> m.unique_id, name |-> m.name, layer |-> m.layer,
      materialization |-> m.materialization, compiled_len |-> m.compiled_len,
      compiled_macros |-> m.compiled_macros, depends_on_nodes |-> m.depends_on_nodes,
      row_count |-> SqlNull, upstream_count |-> DefaultUpstreamCount,
      downstream_count |-> DefaultDownstreamCount, centrality |-> DefaultCentrality ]

ColumnRow(model_id, name) ==
    [ model_id |-> model_id, name |-> name, data_type |-> "",
      is_primary_key |-> FALSE, is_foreign_key |-> FALSE ]

\* INSERT OR IGNORE INTO columns: a row whose (model_id, name) exists is skipped
InsertOrIgnoreColumns(columns, rows) ==
    columns \cup { r \in rows : ~ \E c \in columns : c.model_id = r.model_id /\ c.name = r.name }

_insert_models(db, models) ==
    LET kept == CascadeColumns(db.columns, {})       \* DELETE FROM models
        own == UNION { { ColumnRow(m.unique_id, c) : c \in m.columns } : m \in models }
    IN  [ db EXCEPT !.models = { ModelRow(m) : m \in models },
                    !.columns = InsertOrIgnoreColumns(kept, own) ]

_insert_sources(db, sources) ==
    LET kept == CascadeSourceColumns(db.source_columns, {})   \* DELETE FROM sources
        own == UNION { { [ source_id |-> src.unique_id, name |-> c ] : c \in src.columns } : src \in sources }
    IN  [ db EXCEPT !.sources = { [ unique_id |-> src.unique_id, name |-> src.name ] : src \in sources },
                    !.source_columns = kept \cup own ]

TestRow(t) ==
    [ unique_id |-> t.unique_id, name |-> t.name, test_type |-> t.test_type,
      model_id |-> t.model_id, column_name |-> t.column_name, last_status |-> SqlNull ]

\* the test types among `types` that the tests table holds for column c
TestTypesOn(tests, c, types) ==
    { t.test_type : t \in { u \in tests : u.model_id = c.model_id /\ u.column_name = c.name
                                          /\ u.test_type \in types } }

\* UPDATE columns SET is_primary_key = 1 WHERE rowid IN (... HAVING COUNT(DISTINCT t.test_type) >= 2)
MarkPrimaryKeys(columns, tests) ==
    { IF Cardinality(TestTypesOn(tests, c, { "unique", "not_null" })) >= 2
      THEN [ c EXCEPT !.is_primary_key = TRUE ] ELSE c : c \in columns }

\* UPDATE columns SET is_foreign_key = 1 WHERE rowid IN (... t.test_type = 'relationships')
MarkForeignKeys(columns, tests) ==
    { IF TestTypesOn(tests, c, { "relationships" }) # {}
      THEN [ c EXCEPT !.is_foreign_key = TRUE ] ELSE c : c \in columns }

\* A plausible slip: the HAVING clause asks for one of the two test types only
insert_tests_pk_on_one_test(db, tests) ==
    LET rows == { TestRow(t) : t \in tests }
        pk == { IF TestTypesOn(rows, c, { "unique", "not_null" }) # {}
                THEN [ c EXCEPT !.is_primary_key = TRUE ] ELSE c : c \in db.columns }
    IN  [ db EXCEPT !.tests = rows, !.columns = MarkForeignKeys(pk, rows) ]

\* A plausible slip: no DELETE FROM tests, so INSERT OR REPLACE only overwrites by unique_id
insert_tests_without_delete(db, tests) ==
    LET rows == { TestRow(t) : t \in tests }
        all == rows \cup { o \in db.tests : ~ \E r \in rows : r.unique_id = o.unique_id }
    IN  [ db EXCEPT !.tests = all,
                    !.columns = MarkForeignKeys(MarkPrimaryKeys(db.columns, all), all) ]

_insert_tests(db, tests) ==
    LET rows == { TestRow(t) : t \in tests }          \* DELETE FROM tests, then the inserts
    IN  [ db EXCEPT !.tests = rows,
                    !.columns = MarkForeignKeys(MarkPrimaryKeys(db.columns, rows), rows) ]

_insert_macros(db, macros) == [ db EXCEPT !.macros = macros ]

_insert_exposures(db, exposures) == [ db EXCEPT !.exposures = exposures ]

\* parent_id.startswith(...) raises AttributeError on a parent that is not a string
InsertEdgesRaises(parent_map) == \E e \in parent_map : e[2] = JsonNull

\* A plausible slip: the parent's prefix is not examined
edge_rows_any_parent(parent_map) ==
    { << e[2], e[1] >> : e \in { x \in parent_map :
          IsModelId(x[1]) \/ IsSourceId(x[1]) \/ IsExposureId(x[1]) \/ IsTestId(x[1]) } }

EdgeRows(parent_map) ==
    { << e[2], e[1] >> : e \in { x \in parent_map :
          /\ (IsModelId(x[2]) \/ IsSourceId(x[2]))
          /\ (IsModelId(x[1]) \/ IsSourceId(x[1]) \/ IsExposureId(x[1]) \/ IsTestId(x[1])) } }

_insert_edges(db, parent_map) == [ db EXCEPT !.edges = EdgeRows(parent_map) ]

UpstreamCount(edges, id) == Cardinality({ e \in edges : e[2] = id })
DownstreamCount(edges, id) == Cardinality({ e \in edges : e[1] = id })

\* SELECT MAX(upstream_count + downstream_count) FROM models (0 here stands for no row)
MaxDegree(models) ==
    IF models = {} THEN 0
    ELSE LET m == CHOOSE x \in models : \A y \in models :
                      x.upstream_count + x.downstream_count >= y.upstream_count + y.downstream_count
         IN  m.upstream_count + m.downstream_count

\* A plausible slip: both counts taken from the child_id side
update_degree_counts_child_only(db) ==
    LET counted == { [ m EXCEPT !.upstream_count = UpstreamCount(db.edges, m.unique_id),
                                !.downstream_count = UpstreamCount(db.edges, m.unique_id) ] : m \in db.models }
        mx == MaxDegree(counted)
    IN  [ db EXCEPT !.models =
            { [ m EXCEPT !.centrality = IF mx = 0 THEN NullReal
                                        ELSE Real(m.upstream_count + m.downstream_count, mx) ] : m \in counted } ]

_update_degree_counts(db) ==
    LET counted == { [ m EXCEPT !.upstream_count = UpstreamCount(db.edges, m.unique_id),
                                !.downstream_count = DownstreamCount(db.edges, m.unique_id) ] : m \in db.models }
        mx == MaxDegree(counted)
    IN  \* CAST(... AS REAL) / NULLIF(MAX(...), 0): NULL when the maximum is 0
        [ db EXCEPT !.models =
            { [ m EXCEPT !.centrality = IF mx = 0 THEN NullReal
                                        ELSE Real(m.upstream_count + m.downstream_count, mx) ] : m \in counted } ]

FtsRow(m) == [ unique_id |-> m.unique_id, name |-> m.name, column_names |-> m.columns ]

\* A plausible slip: the rows of the previous ingestion are not deleted
populate_fts_without_delete(db, models) ==
    [ db EXCEPT !.search_index = db.search_index \cup { FtsRow(m) : m \in models } ]

_populate_fts(db, models) == [ db EXCEPT !.search_index = { FtsRow(m) : m \in models } ]

_store_metadata(db, M) == [ db EXCEPT !.index_metadata = M.metadata ]

---------------------------------------------------------------------------
(* Catalog and run-results artifacts *)

\* lower(name) of the column names that occur
Lower(name) ==
    CASE name = "ID" -> "id"
      [] name = "STG_A" -> "stg_a"
      [] name = "FCT_B" -> "fct_b"
      [] OTHER -> name

Catalogs ==
    { [ nodes |-> { [ unique_id |-> "model.a", row_count |-> "7",
                      columns |-> { [ name |-> "ID", type |-> "integer" ] } ],
                    [ unique_id |-> "model.zz", row_count |-> "1",
                      columns |-> { [ name |-> "x", type |-> "text" ] } ] } ] }

RunResults ==
    { { [ unique_id |-> "test.t1", status |-> "fail" ], [ unique_id |-> "model.a", status |-> "success" ] } }

index_catalog_rows(db, catalog) ==
    [ db EXCEPT
        !.columns = { IF \E n \in catalog.nodes : \E cc \in n.columns :
                           n.unique_id = c.model_id /\ Lower(cc.name) = Lower(c.name)
                      THEN LET n == CHOOSE n \in catalog.nodes : \E cc \in n.columns :
                                        n.unique_id = c.model_id /\ Lower(cc.name) = Lower(c.name)
                               cc == CHOOSE cc \in n.columns : Lower(cc.name) = Lower(c.name)
                           IN  [ c EXCEPT !.data_type = cc.type ]
                      ELSE c : c \in db.columns },
        !.models = { IF \E n \in catalog.nodes : n.unique_id = m.unique_id
                     THEN [ m EXCEPT !.row_count =
                              (CHOOSE n \in catalog.nodes : n.unique_id = m.unique_id).row_count ]
                     ELSE m : m \in db.models } ]

index_run_results_rows(db, results) ==
    [ db EXCEPT
        !.tests = { IF \E r \in results : IsTestId(r.unique_id) /\ r.unique_id = t.unique_id
                    THEN [ t EXCEPT !.last_status =
                             (CHOOSE r \in results : r.unique_id = t.unique_id).status ]
                    ELSE t : t \in db.tests } ]

---------------------------------------------------------------------------
(* Indexer.index_manifest, one action per call it makes.  A statement that *)
(* modifies a table opens a transaction on the connection (inTx); COMMIT   *)
(* copies conn to store; ROLLBACK copies store back to conn.               *)
(* Connection.executescript() first commits any pending transaction and    *)
(* then runs its statements in autocommit mode.                            *)

IngestUnchanged == UNCHANGED << seen, bfsCall, capsule, call >>

\* with manifest_path.open() as f: manifest = json.load(f)
LoadManifest(M) ==
    /\ pc = "idle"
    /\ manifest' = M
    /\ before' = store
    /\ IF M.valid_json
       THEN pc' = "store_metadata" /\ outcome' = "running"
       ELSE pc' = "idle" /\ outcome' = "failed"
    /\ UNCHANGED << store, conn, inTx, done >>
    /\ IngestUnchanged

\* self._store_metadata(manifest): executemany, then self._conn.commit()
StoreMetadata ==
    /\ pc = "store_metadata"
    /\ conn' = _store_metadata(conn, manifest)
    /\ store' = conn'
    /\ inTx' = FALSE
    /\ pc' = "parse_nodes"
    /\ UNCHANGED << manifest, done, before, outcome >>
    /\ IngestUnchanged

\* models, tests = self._parse_nodes(nodes) (and the other _parse_* calls)
ParseNodes ==
    /\ pc = "parse_nodes"
    /\ IF ParseNodesRaises(manifest)
       THEN pc' = "idle" /\ outcome' = "failed"
       ELSE pc' = "insert_models" /\ outcome' = outcome
    /\ UNCHANGED << store, conn, inTx, manifest, done, before >>
    /\ IngestUnchanged

\* a helper that only executes DML: its writes stay pending
PendingStep(from, to, db) ==
    /\ pc = from
    /\ conn' = db
    /\ inTx' = TRUE
    /\ pc' = to
    /\ UNCHANGED << store, manifest, done, before, outcome >>
    /\ IngestUnchanged

\* a helper that ends in executescript(): everything pending and the script is committed
ScriptStep(from, to, db) ==
    /\ pc = from
    /\ conn' = db
    /\ store' = db
    /\ inTx' = FALSE
    /\ pc' = to
    /\ UNCHANGED << manifest, done, before, outcome >>
    /\ IngestUnchanged

InsertModels == PendingStep("insert_models", "insert_sources", _insert_models(conn, ParsedModels(manifest)))

InsertSources == PendingStep("insert_sources", "insert_tests", _insert_sources(conn, manifest.sources))

InsertTests == ScriptStep("insert_tests", "insert_macros", _insert_tests(conn, ParsedTests(manifest)))

InsertMacros == PendingStep("insert_macros", "insert_exposures", _insert_macros(conn, manifest.macros))

InsertExposures == PendingStep("insert_exposures", "insert_edges", _insert_exposures(conn, manifest.exposures))

\* an exception leaves the `with self._conn:` block: the pending transaction is rolled back
InsertEdges ==
    /\ pc = "insert_edges"
    /\ IF InsertEdgesRaises(manifest.parent_map)
       THEN conn' = store /\ inTx' = FALSE /\ pc' = "idle" /\ outcome' = "failed"
       ELSE conn' = _insert_edges(conn, manifest.parent_map) /\ inTx' = TRUE
            /\ pc' = "update_degree_counts" /\ outcome' = outcome
    /\ UNCHANGED << store, manifest, done, before >>
    /\ IngestUnchanged

UpdateDegreeCounts == ScriptStep("update_degree_counts", "populate_fts", _update_degree_counts(conn))

\* self._populate_fts(models), then the `with` block commits
PopulateFts ==
    /\ pc = "populate_fts"
    /\ conn' = _populate_fts(conn, ParsedModels(manifest))
    /\ store' = conn'
    /\ inTx' = FALSE
    /\ pc' = "idle"
    /\ outcome' = "completed"
    /\ done' = store'
    /\ UNCHANGED << manifest, before >>
    /\ IngestUnchanged

\* Indexer.index_catalog: all updates in one `with self._conn:` block
IndexCatalog(catalog) ==
    /\ pc = "idle"
    /\ outcome = "completed"
    /\ conn' = index_catalog_rows(conn, catalog)
    /\ conn' # conn
    /\ store' = conn'
    /\ done' = store'
    /\ UNCHANGED << inTx, pc, manifest, before, outcome >>
    /\ IngestUnchanged

\* Indexer.index_run_results: all updates in one `with self._conn:` block
IndexRunResults(results) ==
    /\ pc = "idle"
    /\ outcome = "completed"
    /\ conn' = index_run_results_rows(conn, results)
    /\ conn' # conn
    /\ store' = conn'
    /\ done' = store'
    /\ UNCHANGED << inTx, pc, manifest, before, outcome >>
    /\ IngestUnchanged

NothingSeen == [ read |-> FALSE, snap |-> EmptyStore, latest |-> EmptyStore ]
NoBfsCall == [ direction |-> "none", start |-> "", depth |-> 0, result |-> << >> ]
NoCall == [ op |-> "none" ]
NoCapsule == [ built |-> FALSE, task |-> "", focus_model |-> NoValue, requested_budget |-> 0,
               keywords |-> {} ]

IndexManifestStep ==
    \/ StoreMetadata \/ ParseNodes \/ InsertModels \/ InsertSources \/ InsertTests
    \/ InsertMacros \/ InsertExposures \/ InsertEdges \/ UpdateDegreeCounts \/ PopulateFts

Init ==
    /\ store = EmptyStore
    /\ conn = EmptyStore
    /\ inTx = FALSE
    /\ pc = "idle"
    /\ manifest = NoManifest
    /\ done = EmptyStore
    /\ before = EmptyStore
    /\ outcome = "none"
    /\ seen = NothingSeen
    /\ bfsCall = NoBfsCall
    /\ capsule = NoCapsule
    /\ call = NoCall

Next ==
    \/ \E M \in Manifests : LoadManifest(M)
    \/ IndexManifestStep
    \/ \E c \in Catalogs : IndexCatalog(c)
    \/ \E r \in RunResults : IndexRunResults(r)

Spec == Init /\ [][Next]_vars

---------------------------------------------------------------------------
(* index_manifest run to completion on the tables db *)

IndexManifestOn(db, M) ==
    LET s1 == _store_metadata(db, M)
        s2 == _insert_models(s1, ParsedModels(M))
        s3 == _insert_sources(s2, M.sources)
        s4 == _insert_tests(s3, ParsedTests(M))
        s5 == _insert_macros(s4, M.macros)
        s6 == _insert_exposures(s5, M.exposures)
        s7 == _insert_edges(s6, M.parent_map)
        s8 == _update_degree_counts(s7)
    IN  _populate_fts(s8, ParsedModels(M))

Ids(rows) == { r.unique_id : r \in rows }

---------------------------------------------------------------------------
(* Claims about ingestion, checked under Spec *)

\* C5: if index_manifest fails at any step, the store (index_metadata
\* included) is exactly what it was before the call.
C5_FailedIngestLeavesStoreUntouched ==
    (pc = "idle" /\ outcome = "failed") => store = before

\* C7: when index_manifest(M) completes, every table holds exactly the rows
\* derived from M, whatever was ingested before: the store equals the one a
\* fresh database gets from M, and the keys of every table are those of M.
C7_StoreReflectsLatestManifest ==
    [][ (pc = "populate_fts" /\ pc' = "idle") =>
          /\ store' = IndexManifestOn(EmptyStore, manifest)
          /\ Ids(store'.models) = Ids(ModelNodes(manifest))
          /\ { << c.model_id, c.name >> : c \in store'.columns }
               = UNION { { << n.unique_id, c >> : c \in n.columns } : n \in ModelNodes(manifest) }
          /\ Ids(store'.sources) = Ids(manifest.sources)
          /\ { << c.source_id, c.name >> : c \in store'.source_columns }
               = UNION { { << n.unique_id, c >> : c \in n.columns } : n \in manifest.sources }
          /\ Ids(store'.tests) = Ids(TestNodes(manifest))
          /\ Ids(store'.macros) = Ids(manifest.macros)
          /\ Ids(store'.exposures) = Ids(manifest.exposures)
          /\ store'.edges \subseteq { << e[2], e[1] >> : e \in manifest.parent_map }
          /\ Ids(store'.search_index) = Ids(ModelNodes(manifest))
          /\ Cardinality(store'.search_index) = Cardinality(store'.models) ]_vars

\* C7 witness: a completed re-ingestion whose manifest dropped a model, a
\* column of a kept model, a source column, a test and an edge.
C7_Witness ==
    /\ pc = "idle" /\ outcome = "completed"
    /\ \E m \in before.models : m.unique_id \notin Ids(store.models)
    /\ \E c \in before.columns : c.model_id \in Ids(store.models)
          /\ ~ \E d \in store.columns : d.model_id = c.model_id /\ d.name = c.name
    /\ before.source_columns # {} /\ store.source_columns = {} /\ store.sources # {}
    /\ \E t \in before.tests : t.unique_id \notin Ids(store.tests)
    /\ \E e \in before.edges : e \notin store.edges
    /\ store.models # {} /\ store.tests # {} /\ store.edges # {}

\* C8: after a completed index_manifest (and any later index_catalog or
\* index_run_results) every model row's upstream_count is the number of edges
\* into it and its downstream_count the number of edges out of it.
C8_DegreeCountsMatchEdges ==
    (pc = "idle" /\ outcome = "completed") =>
        \A m \in store.models :
            /\ m.upstream_count = Cardinality({ e \in store.edges : e[2] = m.unique_id })
            /\ m.downstream_count = Cardinality({ e \in store.edges : e[1] = m.unique_id })

\* C8 witness: after ingestion, catalog enrichment and run results, a model
\* with one parent and two children and a model with a parent and no child.
C8_Witness ==
    /\ pc = "idle" /\ outcome = "completed"
    /\ \E t \in store.tests : t.last_status # SqlNull
    /\ \E m \in store.models :
          m.row_count # SqlNull /\ m.upstream_count = 1 /\ m.downstream_count = 2
    /\ \E m \in store.models : m.upstream_count = 1 /\ m.downstream_count = 0

\* C9: after a completed index_manifest every model's centrality is
\* (upstream_count + downstream_count) / max over models of that sum, and is
\* 0 for every model when that maximum is 0.
C9_CentralityNormalised ==
    (pc = "idle" /\ outcome = "completed") =>
        LET deg(m) == m.upstream_count + m.downstream_count
        IN  \A m \in store.models :
                IF \A o \in store.models : deg(o) = 0
                THEN RealEq(m.centrality, Real(0, 1))
                ELSE \E top \in store.models :
                        /\ \A o \in store.models : deg(o) <= deg(top)
                        /\ RealEq(m.centrality, Real(deg(m), deg(top)))

\* C10: for every column row, is_primary_key holds iff the tests table has
\* both a not_null and a unique test on that (model, column), and
\* is_foreign_key holds iff it has a relationships test on it.
C10_KeyFlagsMatchTests ==
    pc = "idle" =>
        \A c \in store.columns :
            LET on(kind) == \E t \in store.tests :
                    t.model_id = c.model_id /\ t.column_name = c.name /\ t.test_type = kind
            IN  /\ c.is_primary_key <=> (on("not_null") /\ on("unique"))
                /\ c.is_foreign_key <=> on("relationships")

\* C10 witness: a re-ingestion completed, a column that was flagged primary
\* key before it is no longer flagged, and a column that was a foreign key
\* before it is no longer one.
C10_Witness ==
    /\ pc = "idle" /\ outcome = "completed"
    /\ \E c \in before.columns : \E d \in store.columns :
          c.model_id = d.model_id /\ c.name = d.name /\ c.is_primary_key /\ ~ d.is_primary_key
    /\ \E c \in before.columns : \E d \in store.columns :
          c.model_id = d.model_id /\ c.name = d.name /\ c.is_foreign_key /\ ~ d.is_foreign_key

\* C11: after every completed index_manifest, search_index holds exactly one
\* row per row of models: the same unique ids and as many rows, also when the
\* manifest has fewer or more models than the one ingested before.
C11_FtsOneRowPerModel ==
    (pc = "idle" /\ outcome = "completed") =>
        /\ Ids(store.search_index) = Ids(store.models)
        /\ Cardinality(store.search_index) = Cardinality(store.models)
        /\ \A r \in store.search_index : \E m \in store.models :
               m.unique_id = r.unique_id /\ m.name = r.name

\* C11 witness: a re-ingestion completed whose manifest dropped a model of
\* the previous one and kept another with different columns.
C11_Witness ==
    /\ pc = "idle" /\ outcome = "completed"
    /\ \E r \in before.search_index : r.unique_id \notin Ids(store.search_index)
    /\ \E r \in before.search_index : \E q \in store.search_index :
          r.unique_id = q.unique_id /\ r.column_names # q.column_names
    /\ store.search_index # {}

\* C11 witness: a re-ingestion completed whose manifest has more models than
\* the previous one.
C11_WitnessMore ==
    /\ pc = "idle" /\ outcome = "completed"
    /\ before.search_index # {}
    /\ Cardinality(store.search_index) > Cardinality(before.search_index)

---------------------------------------------------------------------------
(* A reader on another handle (the server's search, traversal and capsule  *)
(* queries): a query reads the committed tables as they are at that time.  *)

ReaderQuery ==
    /\ seen' = [ read |-> TRUE, snap |-> store, latest |-> done ]
    /\ seen' # seen
    /\ UNCHANGED << store, conn, inTx, pc, manifest, done, before, outcome, bfsCall, capsule, call >>

\* two well-formed manifests, so that every ingestion in SpecReader completes
ReaderManifests ==
    { M \in GoodManifests :
        \/ Cardinality(ModelNodes(M)) = 3 /\ Cardinality(M.parent_map) = 6
        \/ Cardinality(ModelNodes(M)) = 2 /\ Cardinality(M.parent_map) = 3 /\ M.sources # {} }

NextReader ==
    \/ \E M \in ReaderManifests : LoadManifest(M)
    \/ IndexManifestStep
    \/ ReaderQuery

SpecReader == Init /\ [][NextReader]_vars

\* the tables other than index_metadata
DataTables(db) == [ db EXCEPT !.index_metadata = "" ]

\* C6: whatever a concurrent reader reads is the store as of a completed
\* ingestion (the previous one, or the new one once it has completed), never
\* a mix of two ingestions.
C6_ReaderSeesOneIngestion ==
    seen.read => DataTables(seen.snap) = DataTables(seen.latest)

---------------------------------------------------------------------------
(* GraphOps.upstream / downstream over an arbitrary edges table            *)

MaxEdges == 4
MaxDepth == 2

\* ids that may occur as parent_id / child_id of an edge row
GraphNodes == { "model.a", "model.b", "model.c", "source.s" }

\* the edge tables range over every graph on GraphNodes, so these two starts
\* stand in every position of a graph, up to renaming of the nodes
BfsStarts == { "model.a", "source.s" }

EdgeTables == { E \in SUBSET (GraphNodes \X GraphNodes) : Cardinality(E) <= MaxEdges }

InitBfs ==
    /\ \E E \in EdgeTables : store = [ EmptyStore EXCEPT !.edges = E ]
    /\ conn = store
    /\ inTx = FALSE
    /\ pc = "idle"
    /\ manifest = NoManifest
    /\ done = EmptyStore
    /\ before = EmptyStore
    /\ outcome = "none"
    /\ seen = NothingSeen
    /\ bfsCall = NoBfsCall
    /\ capsule = NoCapsule
    /\ call = NoCall

BfsUnchanged == UNCHANGED << store, conn, inTx, pc, manifest, done, before, outcome, seen, capsule, call >>

CallUpstream(unique_id, depth) ==
    /\ bfsCall' = [ direction |-> "up", start |-> unique_id, depth |-> depth,
                    result |-> upstream(store.edges, unique_id, depth) ]
    /\ BfsUnchanged

CallDownstream(unique_id, depth) ==
    /\ bfsCall' = [ direction |-> "down", start |-> unique_id, depth |-> depth,
                    result |-> downstream(store.edges, unique_id, depth) ]
    /\ BfsUnchanged

NextBfs ==
    \/ \E unique_id \in BfsStarts, depth \in 0..MaxDepth : CallUpstream(unique_id, depth)
    \/ \E unique_id \in BfsStarts, depth \in 0..MaxDepth : CallDownstream(unique_id, depth)

SpecBfs == InitBfs /\ [][NextBfs]_vars

\* one hop from any node of S in the given direction
OneHop(E, direction, S) ==
    IF direction = "up" THEN { e[1] : e \in { x \in E : x[2] \in S } }
    ELSE { e[2] : e \in { x \in E : x[1] \in S } }

\* the nodes joined to s by a path of at most k edges
RECURSIVE ReachWithin(_, _, _, _)
ReachWithin(E, direction, s, k) ==
    IF k = 0 THEN {s}
    ELSE LET R == ReachWithin(E, direction, s, k - 1) IN R \cup OneHop(E, direction, R)

ShortestPathLen(E, direction, s, n, d) ==
    CHOOSE k \in 0..d : /\ n \in ReachWithin(E, direction, s, k)
                        /\ \A j \in 0..(k - 1) : n \notin ReachWithin(E, direction, s, j)

---------------------------------------------------------------------------
(* graph.py: GraphOps.impact_analysis *)

\* A plausible slip: the marts clause of the high rule compares with >= 5
risk_level_high_from_five(n_models, n_exposures, has_mart) ==
    IF n_exposures > 0 \/ (has_mart /\ n_models >= 5) THEN "high"
    ELSE IF n_models > 3 \/ has_mart THEN "medium"
    ELSE "low"

\* the risk level heuristic
RiskLevel(n_models, n_exposures, has_mart) ==
    IF n_exposures > 0 \/ (has_mart /\ n_models > 5) THEN "high"
    ELSE IF n_models > 3 \/ has_mart THEN "medium"
    ELSE "low"

\* the elements of seq that satisfy keep (a set of elements), in order
RECURSIVE SelectIn(_, _)
SelectIn(seq, keep) ==
    IF seq = << >> THEN << >>
    ELSE IF Head(seq) \in keep THEN << Head(seq) >> \o SelectIn(Tail(seq), keep)
    ELSE SelectIn(Tail(seq), keep)

\* A plausible slip: the traversal stops one hop short of max_depth
impact_analysis_one_hop_short(db, unique_id, max_depth) ==
    LET downstream_nodes == _bfs(db.edges, unique_id, "down", max_depth - 1)
        ids == [ i \in 1..Len(downstream_nodes) |-> downstream_nodes[i][1] ]
        model_ids == SelectIn(ids, { n \in SeqToSet(ids) : IsModelId(n) })
        exposure_ids == SelectIn(ids, { n \in SeqToSet(ids) : IsExposureId(n) })
        affected_models == SelectIn(model_ids, { m.unique_id : m \in db.models })
        affected_exposures == SelectIn(exposure_ids, { e.unique_id : e \in db.exposures })
        has_mart == \E m \in db.models : m.unique_id \in SeqToSet(affected_models) /\ m.layer = "marts"
    IN  [ target |-> unique_id,
          affected_model_count |-> Len(affected_models),
          affected_models |-> affected_models,
          affected_test_count |-> Cardinality({ t \in db.tests : t.model_id \in SeqToSet(model_ids) }),
          affected_exposures |-> affected_exposures,
          risk_level |-> RiskLevel(Len(affected_models), Len(affected_exposures), has_mart) ]

impact_analysis(db, unique_id, max_depth) ==
    LET downstream_nodes == _bfs(db.edges, unique_id, "down", max_depth)
        ids == [ i \in 1..Len(downstream_nodes) |-> downstream_nodes[i][1] ]
        model_ids == SelectIn(ids, { n \in SeqToSet(ids) : IsModelId(n) })
        exposure_ids == SelectIn(ids, { n \in SeqToSet(ids) : IsExposureId(n) })
        \* SELECT ... FROM models WHERE unique_id = ?: ids without a row are dropped
        affected_models == SelectIn(model_ids, { m.unique_id : m \in db.models })
        affected_exposures == SelectIn(exposure_ids, { e.unique_id : e \in db.exposures })
        has_mart == \E m \in db.models : m.unique_id \in SeqToSet(affected_models) /\ m.layer = "marts"
    IN  [ target |-> unique_id,
          affected_model_count |-> Len(affected_models),
          affected_models |-> affected_models,
          affected_test_count |-> Cardinality({ t \in db.tests : t.model_id \in SeqToSet(model_ids) }),
          affected_exposures |-> affected_exposures,
          risk_level |-> RiskLevel(Len(affected_models), Len(affected_exposures), has_mart) ]

\* impact_analysis called on stores ingested from manifests whose models form
\* a chain or a fan below model.a, with up to MaxImpactModels models below it
MaxImpactModels == 6

ImpactModelSeq ==
    << "model.a", "model.b", "model.c", "model.d", "model.e", "model.f", "model.g", "model.h" >>

ImpactNode(i, dir) ==
    [ resource_type |-> "model", unique_id |-> ImpactModelSeq[i], name |-> "m",
      fqn |-> << "pkg", dir, "m" >>, tags |-> {}, materialized |-> "table",
      compiled_len |-> 10, compiled_macros |-> {}, columns |-> {}, depends_on |-> {} ]

ImpactManifest(shape, n, martsAt, expoAt) ==
    [ valid_json |-> TRUE, metadata |-> "gen1",
      nodes |-> { ImpactNode(i, IF i = martsAt THEN "marts" ELSE "misc") : i \in 1..(n + 1) },
      sources |-> {}, macros |-> {},
      exposures |-> IF expoAt > 0 THEN { ExposureE } ELSE {},
      parent_map |->
          { << ImpactModelSeq[i + 1], ImpactModelSeq[IF shape = "chain" THEN i ELSE 1] >> : i \in 1..n }
            \cup (IF expoAt > 0 THEN { << "exposure.e", ImpactModelSeq[expoAt] >> } ELSE {}) ]

\* every parent of the parent_map is a node of the manifest, as in a dbt artifact
ImpactManifests ==
    { M \in { ImpactManifest(shape, n, martsAt, expoAt) :
                 shape \in { "chain", "fan" }, n \in 0..MaxImpactModels,
                 martsAt \in 0..(MaxImpactModels + 1), expoAt \in 0..(MaxImpactModels + 1) } :
        \A x \in M.parent_map : \E node \in M.nodes : node.unique_id = x[2] }

ImpactDepths == { 1, 3, 5, 6, 7 }

InitImpact ==
    /\ \E M \in ImpactManifests : store = IndexManifestOn(EmptyStore, M) /\ manifest = M
    /\ conn = store
    /\ inTx = FALSE
    /\ pc = "idle"
    /\ done = store
    /\ before = EmptyStore
    /\ outcome = "completed"
    /\ seen = NothingSeen
    /\ bfsCall = NoBfsCall
    /\ capsule = NoCapsule
    /\ \E unique_id \in { "model.a", "model.b" }, max_depth \in ImpactDepths :
          call = [ op |-> "impact_analysis", unique_id |-> unique_id, max_depth |-> max_depth,
                   returned |-> FALSE ]

CallImpactAnalysis ==
    /\ call.op = "impact_analysis" /\ ~ call.returned
    /\ call' = [ op |-> "impact_analysis", unique_id |-> call.unique_id,
                 max_depth |-> call.max_depth, returned |-> TRUE,
                 result |-> impact_analysis(store, call.unique_id, call.max_depth) ]
    /\ UNCHANGED << store, conn, inTx, pc, manifest, done, before, outcome, seen, bfsCall, capsule >>

SpecImpact == InitImpact /\ [][CallImpactAnalysis]_vars

\* C14: impact_analysis(id, max_depth) returns risk_level high if an exposure
\* is reachable downstream within max_depth or if some affected model has
\* layer marts and more than 5 models are affected; otherwise medium if more
\* than 3 models are affected or some affected model has layer marts;
\* otherwise low; the affected models being exactly the model.* nodes
\* reachable downstream within max_depth.
C14_RiskLevelRule ==
    (call.op = "impact_analysis" /\ call.returned) =>
        LET reach == ReachWithin(store.edges, "down", call.unique_id, call.max_depth)
                       \ { call.unique_id }
            affected == { n \in reach : IsModelId(n) }
            exposed == \E n \in reach : IsExposureId(n)
            marts == \E m \in store.models : m.unique_id \in affected /\ m.layer = "marts"
            many(k) == Cardinality(affected) > k
        IN  /\ SeqToSet(call.result.affected_models) = affected
            /\ call.result.affected_model_count = Cardinality(affected)
            /\ call.result.risk_level \in { "high", "medium", "low" }
            /\ call.result.risk_level = "high" <=> (exposed \/ (marts /\ many(5)))
            /\ call.result.risk_level = "medium" <=>
                   (~ (exposed \/ (marts /\ many(5))) /\ (many(3) \/ marts))

\* C14 witness: six affected models, one of them marts, no exposure within
\* max_depth although the store has one: high by the marts clause alone.
C14_Witness ==
    /\ call.op = "impact_analysis" /\ call.returned
    /\ call.result.risk_level = "high"
    /\ call.result.affected_model_count = 6
    /\ call.result.affected_exposures = << >>
    /\ store.exposures # {}

\* C14 witnesses: medium with five affected models of which one is marts;
\* medium with four affected models and the only marts model the target
\* itself; low with three affected models; high with one exposure only.
C14_WitnessMediumMarts ==
    /\ call.op = "impact_analysis" /\ call.returned
    /\ call.result.risk_level = "medium"
    /\ call.result.affected_model_count = 5
    /\ \E m \in store.models : m.layer = "marts" /\ m.unique_id \in SeqToSet(call.result.affected_models)

C14_WitnessMediumCount ==
    /\ call.op = "impact_analysis" /\ call.returned
    /\ call.result.risk_level = "medium"
    /\ call.result.affected_model_count = 4
    /\ \E m \in store.models : m.layer = "marts" /\ m.unique_id = call.unique_id

C14_WitnessLow ==
    /\ call.op = "impact_analysis" /\ call.returned
    /\ call.result.risk_level = "low"
    /\ call.result.affected_model_count = 3

C14_WitnessExposure ==
    /\ call.op = "impact_analysis" /\ call.returned
    /\ call.result.risk_level = "high"
    /\ call.result.affected_model_count = 0
    /\ call.result.affected_exposures # << >>

---------------------------------------------------------------------------
(* capsule.py: detect_intent.                                              *)

Tasks == { "", "stg_a", "fix fct_b test", "refactor dim_c", "test stg_a id" }

IntentSeq == << "debug", "add_feature", "refactor", "test", "document", "explore" >>

_INTENT_KEYWORDS ==
    [ debug |-> { "debug", "fix", "error", "fail", "broken", "wrong", "incorrect", "issue",
                  "bug", "problem", "test failing" },
      add_feature |-> { "add", "create", "new", "build", "implement", "feature", "metric",
                        "measure", "calculate" },
      refactor |-> { "refactor", "restructure", "reorganize", "rename", "move", "split",
                     "merge", "optimize", "performance" },
      test |-> { "test", "coverage", "validate", "assert", "check", "verify" },
      document |-> { "document", "describe", "description", "docs", "comment", "explain" },
      explore |-> { "explore", "understand", "find", "search", "show", "list", "what", "how",
                    "which" } ]

\* sum(1 for kw in keywords if kw in task_lower)
IntentScore(task_lower, intent) ==
    Cardinality({ kw \in _INTENT_KEYWORDS[intent] : StrContains(task_lower, kw) })

\* the scores dict: the intents with a positive score, in the order of _INTENT_KEYWORDS
RECURSIVE IntentScores(_, _)
IntentScores(task_lower, i) ==
    IF i = 0 THEN << >>
    ELSE LET score == IntentScore(task_lower, IntentSeq[i])
         IN  IF score > 0 THEN Append(IntentScores(task_lower, i - 1), << IntentSeq[i], score >>)
             ELSE IntentScores(task_lower, i - 1)

\* A plausible slip: a later key with an equal score replaces the earlier one
RECURSIVE py_max_last(_, _, _)
py_max_last(scores, i, best) ==
    IF i > Len(scores) THEN scores[best][1]
    ELSE py_max_last(scores, i + 1, IF scores[i][2] >= scores[best][2] THEN i ELSE best)

\* max(scores, key=...): the first key, in dict order, with the largest score
RECURSIVE PyMax(_, _, _)
PyMax(scores, i, best) ==
    IF i > Len(scores) THEN scores[best][1]
    ELSE PyMax(scores, i + 1, IF scores[i][2] > scores[best][2] THEN i ELSE best)

detect_intent(task) ==
    LET task_lower == StrLower(task)
        scores == IntentScores(task_lower, Len(IntentSeq))
    IN  IF scores = << >> THEN "explore" ELSE PyMax(scores, 1, 1)

\* config.py: CapsuleConfig.intent_depths
intent_depths ==
    [ debug |-> [ upstream |-> 2, downstream |-> 1 ],
      add_feature |-> [ upstream |-> 1, downstream |-> 2 ],
      refactor |-> [ upstream |-> 1, downstream |-> 3 ],
      test |-> [ upstream |-> 0, downstream |-> 0 ],
      document |-> [ upstream |-> 1, downstream |-> 1 ],
      explore |-> [ upstream |-> 1, downstream |-> 1 ] ]

max_pivots == 3

DEFAULT_TOKEN_BUDGET == 10000

---------------------------------------------------------------------------
(* detect_intent called on task strings of up to MaxTaskWords words *)

MaxTaskWords == 3

TaskWords == << "Fix", "TEST", "add", "failing", "Rename", "check", "orders" >>

RECURSIVE JoinWords(_)
JoinWords(ws) ==
    IF ws = << >> THEN ""
    ELSE IF Len(ws) = 1 THEN TaskWords[ws[1]]
    ELSE TaskWords[ws[1]] \o " " \o JoinWords(Tail(ws))

IntentTasks ==
    { JoinWords(ws) : ws \in UNION { [ 1..n -> 1..Len(TaskWords) ] : n \in 0..MaxTaskWords } }

OnlyCallChanges ==
    UNCHANGED << store, conn, inTx, pc, manifest, done, before, outcome, seen, bfsCall, capsule >>

\* the calls differ only in their argument: the task is drawn at the start
InitIntent ==
    /\ store = EmptyStore
    /\ conn = EmptyStore
    /\ inTx = FALSE
    /\ pc = "idle"
    /\ manifest = NoManifest
    /\ done = EmptyStore
    /\ before = EmptyStore
    /\ outcome = "none"
    /\ seen = NothingSeen
    /\ bfsCall = NoBfsCall
    /\ capsule = NoCapsule
    /\ \E task \in IntentTasks : call = [ op |-> "detect_intent", task |-> task, returned |-> FALSE ]

CallDetectIntent ==
    /\ call.op = "detect_intent" /\ ~ call.returned
    /\ call' = [ op |-> "detect_intent", task |-> call.task, returned |-> TRUE,
                 result |-> detect_intent(call.task) ]
    /\ OnlyCallChanges

SpecIntent == InitIntent /\ [][CallDetectIntent]_vars

\* number of the label's keywords that occur in the task, letter case ignored
KeywordHits(task, label) ==
    Cardinality({ kw \in _INTENT_KEYWORDS[label] :
        \E i \in 1..(Len(task) - Len(kw) + 1) : StrLower(SubSeq(task, i, i + Len(kw) - 1)) = kw })

\* C13: detect_intent(task) returns, among the six labels, the one with the
\* highest number of its keywords occurring as case-insensitive substrings of
\* task; among labels that tie for the highest count the one defined first in
\* the order debug, add_feature, refactor, test, document, explore; and
\* explore when no keyword occurs.
C13_DetectIntentFirstHighest ==
    (call.op = "detect_intent" /\ call.returned) =>
        LET n == Len(IntentSeq)
            hits == << KeywordHits(call.task, "debug"), KeywordHits(call.task, "add_feature"),
                       KeywordHits(call.task, "refactor"), KeywordHits(call.task, "test"),
                       KeywordHits(call.task, "document"), KeywordHits(call.task, "explore") >>
        IN  IF \A i \in 1..n : hits[i] = 0
            THEN call.result = "explore"
            ELSE \E i \in 1..n :
                    /\ call.result = IntentSeq[i]
                    /\ \A j \in 1..n : hits[j] <= hits[i]
                    /\ \A j \in 1..(i - 1) : hits[j] < hits[i]

\* C13 witness: a task with upper-case letters in which two labels tie for
\* the highest count, and one in which a later label beats an earlier one
\* that also has a keyword in the task.
C13_Witness ==
    /\ call.op = "detect_intent" /\ call.returned
    /\ call.task # StrLower(call.task)
    /\ \E l \in DOMAIN _INTENT_KEYWORDS :
          /\ l # call.result
          /\ KeywordHits(call.task, l) = KeywordHits(call.task, call.result)
          /\ KeywordHits(call.task, l) > 0

C13_WitnessLaterWins ==
    /\ call.op = "detect_intent" /\ call.returned
    /\ call.result = "test"
    /\ KeywordHits(call.task, "debug") = 1

C13_WitnessNoKeyword ==
    /\ call.op = "detect_intent" /\ call.returned
    /\ call.task \in { "", "orders orders" }
    /\ call.result = "explore"

---------------------------------------------------------------------------
(* search.py: HybridSearch.  Scores are exact rationals << num, den >>.    *)

\* list.sort / sorted / ORDER BY: a stable sort.  `ahead` holds the pairs
\* << i, j >> of positions such that seq[i]'s key sorts strictly before
\* seq[j]'s; items of equal key keep their order
StableSort(seq, ahead) ==
    [ k \in 1..Len(seq) |->
        seq[CHOOSE i \in 1..Len(seq) :
              Cardinality({ j \in 1..Len(seq) :
                              \/ << j, i >> \in ahead
                              \/ << i, j >> \notin ahead /\ j < i }) = k - 1] ]

\* the pairs of positions of seq
Pairs(seq) == (1..Len(seq)) \X (1..Len(seq))

Take(seq, n) == SubSeq(seq, 1, Min(n, Len(seq)))

WordCharacters == LowerCase \o UpperCase \o "0123456789_"

\* \w
IsWordChar(c) == \E i \in 1..Len(WordCharacters) : SubSeq(WordCharacters, i, i) = c

\* re.sub(r"[^\w\s]", " ", query).split(): the maximal runs of word characters
RECURSIVE SplitWords(_, _, _)
SplitWords(str, i, word) ==
    IF i > Len(str) THEN IF word = "" THEN {} ELSE { word }
    ELSE IF IsWordChar(SubSeq(str, i, i)) THEN SplitWords(str, i + 1, word \o SubSeq(str, i, i))
    ELSE (IF word = "" THEN {} ELSE { word }) \cup SplitWords(str, i + 1, "")

stopwords == { "a", "an", "the", "to", "for", "in", "of", "on", "at", "with", "and", "or",
               "is", "it" }

\* The terms of the MATCH expression: the tokens joined by OR, or the query
\* itself when no token is left
_tokenize_query(query) ==
    LET tokens == { t \in SplitWords(query, 1, "") : StrLower(t) \notin stopwords /\ Len(t) > 1 }
    IN  IF tokens = {} THEN { query } ELSE tokens

\* FTS5 rejects a MATCH expression with a term that is no bareword (the empty
\* string, punctuation) or that is one of its operators
FtsSyntaxError(tokens) ==
    \E t \in tokens : \/ t = ""
                      \/ \E i \in 1..Len(t) : ~IsWordChar(SubSeq(t, i, i))
                      \/ t \in { "AND", "OR", "NOT" }

\* search_index MATCH: the row holds one of the OR-ed terms in its name or
\* column_names (the sql_text, description and tags of the models of this
\* universe hold none of them); FTS5 folds the case of the terms
FtsTerms(tokens) == { StrLower(t) : t \in tokens }

FtsMatch(row, tokens) == row.name \in FtsTerms(tokens) \/ row.column_names \cap FtsTerms(tokens) # {}

INTENT_LAYER_WEIGHTS ==
    [ debug |-> [ staging |-> 10, intermediate |-> 5, marts |-> 0, other |-> 0 ],
      add_feature |-> [ staging |-> 0, intermediate |-> 5, marts |-> 10, other |-> 0 ],
      refactor |-> [ staging |-> 0, intermediate |-> 10, marts |-> 5, other |-> 0 ],
      test |-> [ staging |-> 5, intermediate |-> 5, marts |-> 5, other |-> 0 ],
      document |-> [ staging |-> 0, intermediate |-> 0, marts |-> 0, other |-> 0 ],
      explore |-> [ staging |-> 0, intermediate |-> 0, marts |-> 0, other |-> 0 ] ]

\* exact arithmetic on << num, den >> with den > 0, kept in lowest terms
RECURSIVE Gcd(_, _)
Gcd(a, b) == IF b = 0 THEN a ELSE Gcd(b, a % b)

Abs(a) == IF a < 0 THEN -a ELSE a

Reduce(x) == LET g == Gcd(Abs(x[1]), x[2]) IN << x[1] \div g, x[2] \div g >>

RAdd(x, y) == Reduce(<< x[1] * y[2] + y[1] * x[2], x[2] * y[2] >>)
RSub(x, y) == Reduce(<< x[1] * y[2] - y[1] * x[2], x[2] * y[2] >>)
RMul(x, y) == Reduce(<< x[1] * y[1], x[2] * y[2] >>)
RDiv(x, y) == Reduce(<< x[1] * y[2], x[2] * y[1] >>)
RLt(x, y) == x[1] * y[2] < y[1] * x[2]

\* c.get("centrality", 0.0) or 0.0
CentralityOrZero(c) == IF IsNullReal(c) THEN Real(0, 1) ELSE c

\* the bm25 values the FTS5 engine may report for a matching row
Bm25Values == { 1, 2 }

Bm25Inputs == [ ModelIds -> Bm25Values ]

Candidate(m, score) ==
    [ unique_id |-> m.unique_id, name |-> m.name, layer |-> m.layer,
      centrality |-> m.centrality, bm25_score |-> score ]

ModelOf(db, unique_id) == CHOOSE m \in db.models : m.unique_id = unique_id

\* sqlite3.OperationalError leaving a function that returns rows, and one
\* that returns ids: the value stands for the exception propagating to the caller
OperationalError == << [ raised |-> "OperationalError" ] >>
OperationalErrorIds == << "OperationalError" >>

\* SELECT ... FROM search_index s JOIN models m ... WHERE search_index MATCH ?
\* ORDER BY bm25_score DESC LIMIT ?   (rows of equal score in rowid order)
FtsRows(db, tokens, limit, bm25) ==
    LET terms == FtsTerms(tokens)
        ids == { r.unique_id : r \in { x \in db.search_index :
                     /\ x.name \in terms \/ x.column_names \cap terms # {}
                     /\ \E m \in db.models : m.unique_id = x.unique_id } }
        rows == [ i \in 1..Cardinality(ids) |->
                    Candidate(ModelOf(db, IdsInOrder(ids)[i]),
                              Real(bm25[IdsInOrder(ids)[i]], 1)) ]
    IN  Take(StableSort(rows, { p \in Pairs(rows) :
                                RLt(rows[p[2]].bm25_score, rows[p[1]].bm25_score) }), limit)

\* A plausible slip: the MATCH query runs outside a try block
fts_phase_without_except(db, tokens, limit, bm25) ==
    IF FtsSyntaxError(tokens) THEN OperationalError ELSE FtsRows(db, tokens, limit, bm25)

\* try: <the MATCH query> except sqlite3.OperationalError: return []
_fts_phase(db, tokens, limit, bm25) ==
    IF FtsSyntaxError(tokens) THEN << >> ELSE FtsRows(db, tokens, limit, bm25)

\* text LIKE '%query%' on lowered operands: `_` in the query stands for any
\* one character
LikeContains(text, query) ==
    \E i \in 0..(Len(text) - Len(query)) :
        \A k \in 1..Len(query) :
            SubSeq(query, k, k) = "_" \/ SubSeq(query, k, k) = SubSeq(text, i + k, i + k)

\* query_lower in c["name"].lower()
NameContains(name, query) == StrContains(StrLower(name), StrLower(query))

\* WHERE lower(name) LIKE ... OR lower(description) LIKE ... ORDER BY centrality DESC
\* LIMIT ?   (descriptions are empty here; NULL sorts below every number)
_fallback_search(db, query, limit) ==
    LET ids == { m.unique_id : m \in { x \in db.models :
                                          LikeContains(StrLower(x.name), StrLower(query)) } }
        rows == [ i \in 1..Cardinality(ids) |->
                    Candidate(ModelOf(db, IdsInOrder(ids)[i]), Real(1, 2)) ]
    IN  Take(StableSort(rows, { p \in Pairs(rows) :
                 LET a == rows[p[1]].centrality
                     b == rows[p[2]].centrality
                 IN  \/ IsNullReal(b) /\ ~IsNullReal(a)
                     \/ ~IsNullReal(a) /\ ~IsNullReal(b) /\ RLt(b, a) }), limit)

RMinOf(values) == CHOOSE v \in SeqToSet(values) : \A w \in SeqToSet(values) : ~RLt(w, v)
RMaxOf(values) == CHOOSE v \in SeqToSet(values) : \A w \in SeqToSet(values) : ~RLt(v, w)

_normalize(values) ==
    IF values = << >> THEN values
    ELSE LET mn == RMinOf(values)
             mx == RMaxOf(values)
         IN  IF ~RLt(mn, mx) THEN [ i \in 1..Len(values) |-> Real(1, 1) ]
             ELSE [ i \in 1..Len(values) |-> RDiv(RSub(values[i], mn), RSub(mx, mn)) ]

\* the re-ranking of search: candidates are the rows left after the exclusion
Rerank(candidates, query, intent) ==
    LET norm_bm25 == _normalize([ i \in 1..Len(candidates) |-> candidates[i].bm25_score ])
    IN  [ i \in 1..Len(candidates) |->
            LET c == candidates[i]
                layer_boost == Real(INTENT_LAYER_WEIGHTS[intent][c.layer], 100)
                name_bonus == IF NameContains(c.name, query) THEN Real(15, 100) ELSE Real(0, 1)
            IN  [ unique_id |-> c.unique_id, name |-> c.name, bm25_score |-> c.bm25_score,
                  centrality |-> CentralityOrZero(c.centrality), layer_boost |-> layer_boost,
                  name_bonus |-> name_bonus,
                  score |-> RAdd(RAdd(RMul(norm_bm25[i], Real(55, 100)),
                                      RMul(CentralityOrZero(c.centrality), Real(20, 100))),
                                 RAdd(RMul(layer_boost, Real(10, 100)),
                                      RMul(name_bonus, Real(15, 100)))) ] ]

\* results.sort(key=lambda r: r.score, reverse=True)
SortByScoreDesc(results) ==
    StableSort(results, { p \in Pairs(results) : RLt(results[p[2]].score, results[p[1]].score) })

\* A plausible slip: an empty full-text phase is final, the LIKE scan is never run
search_without_fallback(db, query, intent, limit, exclude_ids, bm25) ==
    LET fts == _fts_phase(db, _tokenize_query(query), limit * 4, bm25)
    IN  IF fts = OperationalError THEN OperationalError
        ELSE LET candidates == SelectSeq(fts, LAMBDA c : c.unique_id \notin exclude_ids)
             IN  Take(SortByScoreDesc(Rerank(candidates, query, intent)), limit)

\* A plausible slip: the excluded ids are dropped after the scores are computed
search_excludes_after_ranking(db, query, intent, limit, exclude_ids, bm25) ==
    LET fts == _fts_phase(db, _tokenize_query(query), limit * 4, bm25)
    IN  IF fts = OperationalError THEN OperationalError
        ELSE LET found == IF fts = << >> THEN _fallback_search(db, query, limit * 4) ELSE fts
                 ranked == SortByScoreDesc(Rerank(found, query, intent))
             IN  Take(SelectSeq(ranked, LAMBDA r : r.unique_id \notin exclude_ids), limit)

search(db, query, intent, limit, exclude_ids, bm25) ==
    LET fts == _fts_phase(db, _tokenize_query(query), limit * 4, bm25)
    IN  IF fts = OperationalError THEN OperationalError
        ELSE LET found == IF fts = << >> THEN _fallback_search(db, query, limit * 4) ELSE fts
                 candidates == SelectSeq(found, LAMBDA c : c.unique_id \notin exclude_ids)
             IN  Take(SortByScoreDesc(Rerank(candidates, query, intent)), limit)

\* lookups of search.py and capsule.py; NoRow stands for a missing row (None)
NoRow == [ unique_id |-> NoValue ]

get_model_by_name(db, name) ==
    IF \E m \in db.models : Lower(m.name) = Lower(name)
    THEN CHOOSE m \in db.models : Lower(m.name) = Lower(name)
    ELSE NoRow

get_model_by_id(db, unique_id) ==
    IF \E m \in db.models : m.unique_id = unique_id THEN ModelOf(db, unique_id) ELSE NoRow

_get_model_row(db, unique_id) == get_model_by_id(db, unique_id)

get_columns(db, model_id) == { c \in db.columns : c.model_id = model_id }

get_tests_for_model(db, model_id) == { t \in db.tests : t.model_id = model_id }

\* macros whose name occurs in the model's SQL
get_macros_for_model(db, model_id) ==
    IF get_model_by_id(db, model_id) = NoRow THEN {}
    ELSE { m \in db.macros : m.name \in ModelOf(db, model_id).compiled_macros }

---------------------------------------------------------------------------
(* Token estimation: the length of json.dumps of each context record,      *)
(* computed from the lengths of its fields.  The *JsonBase numbers are the *)
(* lengths of the record's JSON with every string empty and every list     *)
(* empty (keys, quotes, separators and brackets).                          *)

_CHARS_PER_TOKEN == 4

_estimate_tokens(text_len) == Max(1, text_len \div _CHARS_PER_TOKEN)

\* json.dumps of a list whose items have the JSON lengths f[x], x in S
ListJsonLen(S, f) == IF S = {} THEN 2 ELSE 2 + SumOver(S, f) + 2 * (Cardinality(S) - 1)

\* json.dumps of a string
StrJsonLen(str) == Len(str) + 2

FullModelJsonBase == 166
FullColumnJsonBase == 61
SkeletonJsonBase == 80
SkeletonColumnJsonBase == 24
MinimalJsonBase == 79
TestJsonBase == 98
MacroJsonBase == 68
PatternsJsonBase == 326
DictEntryJsonBase == 6

\* d.split(".")[-1] for the model ids of this universe
LastPart(d) ==
    CASE d = "model.a" -> "a"
      [] d = "model.b" -> "b"
      [] d = "model.c" -> "c"
      [] OTHER -> d

\* SkeletonColumn(name, data_type, description, tests) of _build_full_model
FullColumnJsonLen(c, tests) ==
    LET on == { t \in tests : t.column_name # "" /\ t.column_name = c.name }
    IN  FullColumnJsonBase + Len(c.name) + Len(c.data_type)
            + ListJsonLen(on, [ t \in on |-> StrJsonLen(t.test_type) ]) - 2

FullModelJsonLen(model_row, columns, tests) ==
    LET deps == { d \in model_row.depends_on_nodes : IsModelId(d) }
    IN  FullModelJsonBase + Len(model_row.unique_id) + Len(model_row.name) + Len(model_row.layer)
            + Len(model_row.materialization) + model_row.compiled_len
            + ListJsonLen(columns, [ c \in columns |-> FullColumnJsonLen(c, tests) ]) - 2
            + ListJsonLen(deps, [ d \in deps |-> StrJsonLen(LastPart(d)) ]) - 2

SkeletonJsonLen(model_row, columns) ==
    SkeletonJsonBase + Len(model_row.unique_id) + Len(model_row.name) + Len(model_row.layer)
        + Len(model_row.materialization)
        + ListJsonLen(columns, [ c \in columns |->
                                   SkeletonColumnJsonBase + Len(c.name) + Len(c.data_type) ]) - 2

Digits(n) == IF n < 10 THEN 1 ELSE 2

\* key_columns[:5]: this universe has fewer than five columns per model
MinimalJsonLen(model_row, columns) ==
    LET key_cols == { c \in columns : c.is_primary_key \/ c.is_foreign_key }
    IN  MinimalJsonBase + Len(model_row.unique_id) + Len(model_row.name) + Len(model_row.layer)
            + Digits(Cardinality(columns))
            + ListJsonLen(key_cols, [ c \in key_cols |-> StrJsonLen(c.name) ]) - 2

\* {unique_id, name, test_type, column_name, severity, last_status}; severity is "error"
TestDictJsonLen(t) ==
    TestJsonBase + Len(t.unique_id) + Len(t.name) + Len(t.test_type) + Len(t.column_name)
        + Len("error") + (IF t.last_status = SqlNull THEN Len("null") ELSE StrJsonLen(t.last_status))

\* {unique_id, name, package_name, description}
MacroDictJsonLen(m) == MacroJsonBase + Len(m.unique_id) + Len(m.name) + Len(m.package_name)

\* the context records, each with the length of its model_dump() as JSON
_build_full_model(model_row, columns, tests) ==
    [ unique_id |-> model_row.unique_id, name |-> model_row.name, detail |-> "full",
      json_len |-> FullModelJsonLen(model_row, columns, tests) ]

_build_skeleton_model(model_row, columns) ==
    [ unique_id |-> model_row.unique_id, name |-> model_row.name, detail |-> "skeleton",
      json_len |-> SkeletonJsonLen(model_row, columns) ]

_build_minimal_model(model_row, columns) ==
    [ unique_id |-> model_row.unique_id, name |-> model_row.name, detail |-> "minimal",
      json_len |-> MinimalJsonLen(model_row, columns) ]

_estimate_dict_tokens(d) == _estimate_tokens(d.json_len)

---------------------------------------------------------------------------
(* patterns.py: the part of get_patterns that build puts in the capsule    *)

\* str.startswith and "__" in str for the model names of this universe
StartsWith(name, prefix) ==
    \/ name = "fct_b" /\ prefix = "fct_"
    \/ name = "dim_c" /\ prefix = "dim_"

HasDoubleUnderscore(name) == FALSE

NamesInLayer(db, layer) == { m.name : m \in { x \in db.models : x.layer = layer } }

\* SELECT materialization, COUNT(*) ... WHERE layer = ? GROUP BY materialization
\* ORDER BY cnt DESC LIMIT 1
MostCommonMaterialization(db, layer) ==
    LET mats == { m.materialization : m \in { x \in db.models : x.layer = layer } }
        cnt(mat) == Cardinality({ m \in db.models : m.layer = layer /\ m.materialization = mat })
    IN  CHOOSE mat \in mats : \A other \in mats : cnt(other) <= cnt(mat)

_extract_naming_patterns(db) ==
    LET staging_names == { m \in db.models : m.layer = "staging" }
        example == (CHOOSE m \in staging_names :
                        \A o \in staging_names : IdRank(m.unique_id) <= IdRank(o.unique_id)).name
        marts_names == NamesInLayer(db, "marts")
        has_fct == \E n \in marts_names : StartsWith(n, "fct_")
        has_dim == \E n \in marts_names : StartsWith(n, "dim_")
        mat(layer, default) ==
            IF NamesInLayer(db, layer) = {} THEN default ELSE MostCommonMaterialization(db, layer)
        staging_pattern ==
            IF staging_names # {} /\ ~HasDoubleUnderscore(example)
            THEN "stg_{source}_{entity}" ELSE "stg_{source}__{entity}"
        intermediate_pattern == "int_{entity}_{verb}"
        marts_pattern ==
            IF has_fct /\ has_dim THEN "fct_{entity} | dim_{entity}"
            ELSE IF has_fct THEN "fct_{entity}"
            ELSE IF has_dim THEN "dim_{entity}"
            ELSE "fct_{entity} | dim_{entity}"
    IN  [ staging_pattern |-> staging_pattern,
          staging_example |-> IF staging_names = {} THEN "" ELSE example,
          staging_materialization |-> mat("staging", "view"),
          intermediate_pattern |-> intermediate_pattern,
          intermediate_materialization |-> mat("intermediate", "view"),
          marts_pattern |-> marts_pattern,
          marts_materialization |-> mat("marts", "table"),
          yaml_pattern |-> "__{folder_name}_models.yml",
          naming_summary_len |-> Len("staging: ") + Len(staging_pattern) + Len(", intermediate: ")
                                   + Len(intermediate_pattern) + Len(", marts: ") + Len(marts_pattern),
          directory_summary |->
              "models/staging/{source}/, models/intermediate/, models/marts/{domain}/",
          yaml_requirements |->
              "Each model needs description + column descriptions + not_null/unique on PK" ]

_extract_materializations(db) ==
    { << layer, MostCommonMaterialization(db, layer) >> :
        layer \in { l \in { "staging", "intermediate", "marts", "other" } : NamesInLayer(db, l) # {} } }

\* patterns_dict = {"naming": ..., "common_materializations": ...} of build
PatternsDict(db) ==
    LET n == _extract_naming_patterns(db)
        mats == _extract_materializations(db)
    IN  [ json_len |->
            PatternsJsonBase + Len(n.staging_pattern) + Len(n.staging_example)
              + Len(n.staging_materialization) + Len(n.intermediate_pattern)
              + Len(n.intermediate_materialization) + Len(n.marts_pattern)
              + Len(n.marts_materialization) + Len(n.yaml_pattern) + n.naming_summary_len
              + Len(n.directory_summary) + Len(n.yaml_requirements)
              + ListJsonLen(mats, [ e \in mats |-> DictEntryJsonBase + Len(e[1]) + Len(e[2]) ]) - 2 ]

---------------------------------------------------------------------------
(* capsule.py: CapsuleBuilder                                              *)

\* a plausible slip: the focus model is looked up by name only
select_pivots_by_name_only(db, task, intent, focus_model, bm25) ==
    LET row == IF focus_model = NoValue THEN NoRow ELSE get_model_by_name(db, focus_model)
        pivot_ids == IF row = NoRow THEN << >> ELSE << row.unique_id >>
        results == search(db, task, intent, max_pivots - Len(pivot_ids) + 2,
                          SeqToSet(pivot_ids), bm25)
    IN  pivot_ids \o Take([ i \in 1..Len(results) |-> results[i].unique_id ],
                          max_pivots - Len(pivot_ids))

\* A plausible slip: a focus_model that resolves to no row is kept as a pivot id
select_pivots_keeps_unresolved_focus(db, task, intent, focus_model, bm25) ==
    LET by_name == IF focus_model = NoValue THEN NoRow ELSE get_model_by_name(db, focus_model)
        row == IF focus_model = NoValue THEN NoRow
               ELSE IF by_name # NoRow THEN by_name ELSE get_model_by_id(db, focus_model)
        pivot_ids == IF focus_model = NoValue THEN << >>
                     ELSE IF row = NoRow THEN << focus_model >> ELSE << row.unique_id >>
        results == search(db, task, intent, max_pivots - Len(pivot_ids) + 2,
                          SeqToSet(pivot_ids), bm25)
    IN  IF results = OperationalError THEN OperationalErrorIds
        ELSE pivot_ids \o Take([ i \in 1..Len(results) |-> results[i].unique_id ],
                               max_pivots - Len(pivot_ids))

\* A plausible slip: every search result is appended, without the max_pivots check
select_pivots_without_cap(db, task, intent, focus_model, bm25) ==
    LET by_name == IF focus_model = NoValue THEN NoRow ELSE get_model_by_name(db, focus_model)
        row == IF focus_model = NoValue THEN NoRow
               ELSE IF by_name # NoRow THEN by_name ELSE get_model_by_id(db, focus_model)
        pivot_ids == IF row = NoRow THEN << >> ELSE << row.unique_id >>
        results == search(db, task, intent, max_pivots - Len(pivot_ids) + 2,
                          SeqToSet(pivot_ids), bm25)
    IN  pivot_ids \o [ i \in 1..Len(results) |-> results[i].unique_id ]

\* A plausible slip: the search is not told which ids are already chosen
select_pivots_without_exclude(db, task, intent, focus_model, bm25) ==
    LET by_name == IF focus_model = NoValue THEN NoRow ELSE get_model_by_name(db, focus_model)
        row == IF focus_model = NoValue THEN NoRow
               ELSE IF by_name # NoRow THEN by_name ELSE get_model_by_id(db, focus_model)
        pivot_ids == IF row = NoRow THEN << >> ELSE << row.unique_id >>
        results == search(db, task, intent, max_pivots - Len(pivot_ids) + 2, {}, bm25)
    IN  pivot_ids \o Take([ i \in 1..Len(results) |-> results[i].unique_id ],
                          max_pivots - Len(pivot_ids))

_select_pivots(db, task, intent, focus_model, bm25) ==
    LET by_name == IF focus_model = NoValue THEN NoRow ELSE get_model_by_name(db, focus_model)
        row == IF focus_model = NoValue THEN NoRow
               ELSE IF by_name # NoRow THEN by_name ELSE get_model_by_id(db, focus_model)
        pivot_ids == IF row = NoRow THEN << >> ELSE << row.unique_id >>
        results == search(db, task, intent, max_pivots - Len(pivot_ids) + 2,
                          SeqToSet(pivot_ids), bm25)
    IN  IF results = OperationalError THEN OperationalErrorIds
        ELSE pivot_ids \o Take([ i \in 1..Len(results) |-> results[i].unique_id ],
                               max_pivots - Len(pivot_ids))

\* for uid, dist in <bfs result>: if uid.startswith("model.") and uid not in pivot_ids:
\*     ids[uid] = min(ids.get(uid, 999), dist)
\* ids is a dict: a sequence of << uid, dist >> in insertion order
RECURSIVE KeepMinDistance(_, _, _)
KeepMinDistance(ids, found, pivot_ids) ==
    IF found = << >> THEN ids
    ELSE LET uid == Head(found)[1]
             dist == Head(found)[2]
         IN  IF ~(IsModelId(uid) /\ uid \notin SeqToSet(pivot_ids))
             THEN KeepMinDistance(ids, Tail(found), pivot_ids)
             ELSE IF \E i \in 1..Len(ids) : ids[i][1] = uid
             THEN KeepMinDistance([ i \in 1..Len(ids) |->
                                      IF ids[i][1] = uid THEN << uid, Min(ids[i][2], dist) >>
                                      ELSE ids[i] ],
                                  Tail(found), pivot_ids)
             ELSE KeepMinDistance(Append(ids, << uid, Min(999, dist) >>), Tail(found), pivot_ids)

\* a plausible slip: the `uid not in pivot_ids` test is left out
RECURSIVE expand_keeps_pivots(_, _, _, _, _)
expand_keeps_pivots(db, pivot_ids, direction, depth, i) ==
    IF i = 0 THEN << >>
    ELSE KeepMinDistance(expand_keeps_pivots(db, pivot_ids, direction, depth, i - 1),
                         _bfs(db.edges, pivot_ids[i], direction, depth), << >>)

\* Step 2 of build: the loop over pivot_ids[i..] (called with i = Len(pivot_ids)
\* downto 1 from the inside out, so the first pivot's nodes are inserted first)
RECURSIVE Expand(_, _, _, _, _)
Expand(db, pivot_ids, direction, depth, i) ==
    IF i = 0 THEN << >>
    ELSE KeepMinDistance(Expand(db, pivot_ids, direction, depth, i - 1),
                         _bfs(db.edges, pivot_ids[i], direction, depth), pivot_ids)

\* int(budget * share) for share = pct / 100
AllocShare(budget, pct) == (budget * pct) \div 100

\* the packing loops of _assemble: take an item when it still fits under cap;
\* the upstream and downstream loops break at the first item that does not
RECURSIVE PackLoop(_, _, _, _, _)
PackLoop(items, cap, tokens, taken, breaks) ==
    IF items = << >> THEN [ taken |-> taken, tokens |-> tokens ]
    ELSE LET cost == _estimate_dict_tokens(Head(items))
         IN  IF tokens + cost <= cap
             THEN PackLoop(Tail(items), cap, tokens + cost, Append(taken, Head(items)), breaks)
             ELSE IF breaks THEN [ taken |-> taken, tokens |-> tokens ]
             ELSE PackLoop(Tail(items), cap, tokens, taken, breaks)

RECURSIVE Flatten(_)
Flatten(seqs) == IF seqs = << >> THEN << >> ELSE Head(seqs) \o Flatten(Tail(seqs))

\* the rows of a query result, in rowid order
RowsInOrder(rows) ==
    LET ids == IdsInOrder({ r.unique_id : r \in rows })
    IN  [ i \in 1..Len(ids) |-> CHOOSE r \in rows : r.unique_id = ids[i] ]

_assemble(db, pivot_ids, upstream_ids, downstream_ids, tests_map, macros_map, patterns, budget) ==
    LET alloc == [ pivot |-> AllocShare(budget, 45), upstream |-> AllocShare(budget, 20),
                   downstream |-> AllocShare(budget, 10), tests_macros |-> AllocShare(budget, 10),
                   patterns |-> AllocShare(budget, 10), session |-> AllocShare(budget, 5) ]
        found(ids) == SelectSeq(ids, LAMBDA uid : _get_model_row(db, uid) # NoRow)
        by_distance(ids) ==
            LET sorted == StableSort(ids, { p \in Pairs(ids) : ids[p[1]][2] < ids[p[2]][2] })
            IN  found([ i \in 1..Len(sorted) |-> sorted[i][1] ])
        fulls == [ i \in 1..Len(found(pivot_ids)) |->
                     LET pid == found(pivot_ids)[i]
                     IN  _build_full_model(_get_model_row(db, pid), get_columns(db, pid),
                                           tests_map[pid]) ]
        skels == [ i \in 1..Len(by_distance(upstream_ids)) |->
                     LET uid == by_distance(upstream_ids)[i]
                     IN  _build_skeleton_model(_get_model_row(db, uid), get_columns(db, uid)) ]
        minis == [ i \in 1..Len(by_distance(downstream_ids)) |->
                     LET uid == by_distance(downstream_ids)[i]
                     IN  _build_minimal_model(_get_model_row(db, uid), get_columns(db, uid)) ]
        tests == Flatten([ i \in 1..Len(pivot_ids) |->
                     LET rows == RowsInOrder(tests_map[pivot_ids[i]])
                     IN  [ k \in 1..Len(rows) |-> [ unique_id |-> rows[k].unique_id,
                                                    json_len |-> TestDictJsonLen(rows[k]) ] ] ])
        macros == Flatten([ i \in 1..Len(pivot_ids) |->
                     LET rows == IF macros_map[pivot_ids[i]] = {} THEN << >>  \* at most one macro here
                                 ELSE << CHOOSE m \in macros_map[pivot_ids[i]] : TRUE >>
                     IN  [ k \in 1..Len(rows) |-> [ unique_id |-> rows[k].unique_id,
                                                    json_len |-> MacroDictJsonLen(rows[k]) ] ] ])
        pivot == PackLoop(fulls, alloc.pivot, 0, << >>, FALSE)
        up == PackLoop(skels, alloc.upstream, 0, << >>, TRUE)
        down == PackLoop(minis, alloc.downstream, 0, << >>, TRUE)
        tm_tests == PackLoop(tests, alloc.tests_macros \div 2, 0, << >>, FALSE)
        tm == PackLoop(macros, alloc.tests_macros, tm_tests.tokens, << >>, FALSE)
    IN  [ pivot_models |-> pivot.taken, upstream_models |-> up.taken,
          downstream_models |-> down.taken, relevant_tests |-> tm_tests.taken,
          relevant_macros |-> tm.taken,
          pivot_tokens |-> pivot.tokens, upstream_tokens |-> up.tokens,
          downstream_tokens |-> down.tokens, tm_tokens |-> tm.tokens,
          patterns_tokens |-> _estimate_dict_tokens(patterns),
          token_estimate |-> pivot.tokens + up.tokens + down.tokens + tm.tokens
                               + _estimate_dict_tokens(patterns),
          token_budget |-> budget ]

---------------------------------------------------------------------------
(* CapsuleBuilder.build on an indexed store: the store is what a completed *)
(* index_manifest (and possibly index_catalog) left, and the call's inputs *)
(* are fixed by the initial state.                                         *)

\* focus_model values: None, model names in either case, a unique id, an unknown name
FocusModels == { NoValue, "stg_a", "FCT_B", "model.b", "model.c", "ghost" }

\* token_budget values; 0 stands for None (the default budget is used)
TokenBudgets == { 0, 1, 100, 400, 600 }

IndexedStores ==
    LET ingested == { IndexManifestOn(EmptyStore, M) : M \in GoodManifests }
    IN  ingested \cup { index_catalog_rows(db, c) : db \in ingested, c \in Catalogs }

\* def build(self, task, focus_model=None, token_budget=None)
BuildParameters == { "task", "focus_model", "token_budget" }

\* a call build(task, focus_model=..., token_budget=...); keywords are the
\* names of the arguments the call passes
BuildRequest(task, focus_model, token_budget, bm25) ==
    [ op |-> "build", built |-> FALSE, task |-> task, focus_model |-> focus_model,
      requested_budget |-> token_budget, bm25 |-> bm25,
      keywords |-> { "task", "focus_model", "token_budget" } ]

InitBuild ==
    /\ store \in IndexedStores
    /\ conn = store
    /\ inTx = FALSE
    /\ pc = "idle"
    /\ manifest = NoManifest
    /\ done = store
    /\ before = store
    /\ outcome = "completed"
    /\ seen = NothingSeen
    /\ bfsCall = NoBfsCall
    /\ call = NoCall
    /\ \E task \in Tasks, focus_model \in FocusModels, token_budget \in TokenBudgets,
          bm25 \in Bm25Inputs :
            capsule = BuildRequest(task, focus_model, token_budget, bm25)

\* A plausible slip: only the pivots are kept out of the similar models
all_known_pivots_only(pivot_ids, upstream_ids, downstream_ids) == SeqToSet(pivot_ids)

\* all_known = set(pivot_ids) | set(upstream_ids) | set(downstream_ids)
all_known(pivot_ids, upstream_ids, downstream_ids) ==
    SeqToSet(pivot_ids) \cup { upstream_ids[i][1] : i \in 1..Len(upstream_ids) }
                        \cup { downstream_ids[i][1] : i \in 1..Len(downstream_ids) }

\* the call ends with exception e in place of a capsule
Raised(request, e) == [ request EXCEPT !.built = TRUE ] @@ [ raised |-> e ]

\* The body of CapsuleBuilder.build(task, focus_model, token_budget) for the
\* call `request`; `response` is what the call ends in.  Each step's result
\* is bound once it is computed, as the code binds its local variables
BuildBody(request, response) ==
    /\ \E budget \in { IF request.requested_budget = 0 THEN DEFAULT_TOKEN_BUDGET
                       ELSE request.requested_budget },
          intent \in { detect_intent(request.task) } :
       \E pivot_ids \in { _select_pivots(store, request.task, intent, request.focus_model,
                                         request.bm25) } :
       IF pivot_ids = OperationalErrorIds THEN response = Raised(request, "OperationalError")
       ELSE
       \E upstream_ids \in { Expand(store, pivot_ids, "up", intent_depths[intent].upstream,
                                    Len(pivot_ids)) },
          downstream_ids \in { Expand(store, pivot_ids, "down", intent_depths[intent].downstream,
                                      Len(pivot_ids)) },
          tests_map \in { [ pid \in SeqToSet(pivot_ids) |-> get_tests_for_model(store, pid) ] },
          macros_map \in { [ pid \in SeqToSet(pivot_ids) |-> get_macros_for_model(store, pid) ] },
          patterns \in { PatternsDict(store) } :
       \E similar \in { search(store, request.task, intent, 5,
                               all_known(pivot_ids, upstream_ids, downstream_ids),
                               request.bm25) } :
       IF similar = OperationalError THEN response = Raised(request, "OperationalError")
       ELSE
       \E assembled \in { _assemble(store, pivot_ids, upstream_ids, downstream_ids, tests_map,
                                    macros_map, patterns, budget) } :
            response = [ op |-> "build", built |-> TRUE, task |-> request.task,
                         focus_model |-> request.focus_model,
                         requested_budget |-> request.requested_budget, bm25 |-> request.bm25,
                         keywords |-> request.keywords, raised |-> "none",
                         intent |-> intent, pivot_ids |-> pivot_ids,
                         upstream_ids |-> upstream_ids, downstream_ids |-> downstream_ids,
                         similar_models |-> [ i \in 1..Len(similar) |-> similar[i].name ],
                         result |-> assembled ]

\* CapsuleBuilder.build(task, focus_model, token_budget)
Build ==
    /\ ~capsule.built
    /\ capsule.keywords \subseteq BuildParameters
    /\ BuildBody(capsule, capsule')
    /\ UNCHANGED << store, conn, inTx, pc, manifest, done, before, outcome, seen, bfsCall, call >>

\* the same call made again without focus_model, once the first has returned
BuildWithoutFocus ==
    /\ capsule.built
    /\ capsule.focus_model # NoValue
    /\ call = NoCall
    /\ BuildBody(BuildRequest(capsule.task, NoValue, capsule.requested_budget, capsule.bm25),
                 call')
    /\ UNCHANGED << store, conn, inTx, pc, manifest, done, before, outcome, seen, bfsCall,
                    capsule >>

\* a call that passes an argument build does not declare: Python raises
\* TypeError (unexpected keyword argument) before the body runs
BuildRaisesTypeError ==
    /\ ~capsule.built
    /\ ~ (capsule.keywords \subseteq BuildParameters)
    /\ capsule' = Raised(capsule, "TypeError")
    /\ UNCHANGED << store, conn, inTx, pc, manifest, done, before, outcome, seen, bfsCall, call >>

SpecBuild == InitBuild /\ [][Build]_vars

IdsOf(recs) == { recs[i].unique_id : i \in 1..Len(recs) }

\* C1: for every positive token_budget, however small, the capsule returned
\* by build has token_estimate <= 1.2 * token_budget.
C1_TokenEstimateWithinBudget ==
    capsule.built => 10 * capsule.result.token_estimate <= 12 * capsule.result.token_budget

\* the model that focus_model names: by case-insensitive name, else by unique id
FocusResolves == \E m \in store.models :
                     Lower(m.name) = Lower(capsule.focus_model) \/ m.unique_id = capsule.focus_model

FocusTarget ==
    IF \E m \in store.models : Lower(m.name) = Lower(capsule.focus_model)
    THEN CHOOSE m \in store.models : Lower(m.name) = Lower(capsule.focus_model)
    ELSE CHOOSE m \in store.models : m.unique_id = capsule.focus_model

FocusCost ==
    _estimate_dict_tokens(_build_full_model(FocusTarget, get_columns(store, FocusTarget.unique_id),
                                            get_tests_for_model(store, FocusTarget.unique_id)))

\* C2 as stated: whenever focus_model names an indexed model, the capsule
\* lists that model in pivot_models at full detail, for every task and
\* every token_budget.
C2_FocusModelAlwaysPivot ==
    capsule.built /\ capsule.focus_model # NoValue /\ FocusResolves =>
        \E i \in 1..Len(capsule.result.pivot_models) :
            /\ capsule.result.pivot_models[i].unique_id = FocusTarget.unique_id
            /\ capsule.result.pivot_models[i].detail = "full"

\* C2 amended: whenever focus_model names an indexed model, build selects it
\* as the first pivot, and pivot_models lists it exactly when its full-detail
\* cost is at most int(0.45 * token_budget); every entry of pivot_models is
\* at full detail.
C2_FocusModelPivotWhenItFits ==
    capsule.built /\ capsule.focus_model # NoValue /\ FocusResolves =>
        /\ capsule.pivot_ids # << >>
        /\ capsule.pivot_ids[1] = FocusTarget.unique_id
        /\ FocusTarget.unique_id \in IdsOf(capsule.result.pivot_models)
               <=> FocusCost <= AllocShare(capsule.result.token_budget, 45)
        /\ \A i \in 1..Len(capsule.result.pivot_models) :
               capsule.result.pivot_models[i].detail = "full"

\* a focus model given by unique id is listed, next to a second pivot found
\* by the search
C2_Witness ==
    /\ capsule.built
    /\ capsule.focus_model = "model.b"
    /\ "model.b" \in IdsOf(capsule.result.pivot_models)
    /\ Len(capsule.pivot_ids) > 1

\* C3: no unique id of pivot_models appears in upstream_models or in
\* downstream_models, also when one pivot is an ancestor or descendant of
\* another pivot.
C3_PivotsExcludedFromNeighbours ==
    capsule.built =>
        /\ IdsOf(capsule.result.pivot_models) \cap IdsOf(capsule.result.upstream_models) = {}
        /\ IdsOf(capsule.result.pivot_models) \cap IdsOf(capsule.result.downstream_models) = {}
        /\ SeqToSet(capsule.pivot_ids) \cap IdsOf(capsule.result.upstream_models) = {}
        /\ SeqToSet(capsule.pivot_ids) \cap IdsOf(capsule.result.downstream_models) = {}

\* two pivots joined by an edge, both listed, and a further model listed downstream
C3_Witness ==
    /\ capsule.built
    /\ \E p, q \in IdsOf(capsule.result.pivot_models) : << p, q >> \in store.edges
    /\ capsule.result.downstream_models # << >>

---------------------------------------------------------------------------
(* CapsuleBuilder.build on a store with more models than max_pivots, all   *)
(* with a column named id *)

WideModelIds == { "model.a", "model.b", "model.c", "model.d", "model.e" }

WideNode(i, name, dir) ==
    [ ImpactNode(i, dir) EXCEPT !.name = name, !.fqn = << "pkg", dir, name >>, !.columns = { "id" } ]

WideManifest(parent_map) ==
    [ valid_json |-> TRUE, metadata |-> "gen1",
      nodes |-> { ModelNodeA({ "id" }), ModelNodeB({ "id", "x" }), ModelNodeC("dim_c"),
                  WideNode(4, "int_d", "intermediate"), WideNode(5, "util_e", "misc") },
      sources |-> {}, macros |-> {}, exposures |-> {}, parent_map |-> parent_map ]

WideStores ==
    { IndexManifestOn(EmptyStore, WideManifest(parent_map)) :
        parent_map \in { {},
                         { << "model.b", "model.a" >>, << "model.c", "model.b" >>,
                           << "model.d", "model.a" >>, << "model.e", "model.d" >> } } }

InitPivots ==
    /\ store \in WideStores
    /\ conn = store
    /\ inTx = FALSE
    /\ pc = "idle"
    /\ manifest = NoManifest
    /\ done = store
    /\ before = store
    /\ outcome = "completed"
    /\ seen = NothingSeen
    /\ bfsCall = NoBfsCall
    /\ call = NoCall
    /\ \E task \in Tasks, focus_model \in FocusModels, bm25 \in [ WideModelIds -> Bm25Values ] :
            capsule = BuildRequest(task, focus_model, 0, bm25)

SpecPivots == InitPivots /\ [][Build]_vars

\* C15: for every build call, the pivot ids chosen by pivot resolution hold
\* no id twice and number at most max_pivots, whatever focus_model resolves
\* to and whatever the search returns.
C15_PivotsDistinctAndCapped ==
    capsule.built =>
        /\ Len(capsule.pivot_ids) <= max_pivots
        /\ \A i, j \in 1..Len(capsule.pivot_ids) :
               capsule.pivot_ids[i] = capsule.pivot_ids[j] => i = j
        /\ Len(capsule.result.pivot_models) <= max_pivots

\* C15 witness: the focus model resolved, the task's terms match it and more
\* than max_pivots other models, and max_pivots pivots were chosen.
C15_Witness ==
    /\ capsule.built
    /\ capsule.focus_model = "FCT_B"
    /\ capsule.task = "test stg_a id"
    /\ Cardinality({ r \in store.search_index : FtsMatch(r, _tokenize_query(capsule.task)) }) > max_pivots
    /\ Len(capsule.pivot_ids) = max_pivots
    /\ capsule.pivot_ids[1] = "model.b"

---------------------------------------------------------------------------
(* The calls that server.py, the benchmarks and tests/test_capsule.py make *)
(* on CapsuleBuilder: build with entry_models / entry_paths, and discover. *)

\* the attributes that class CapsuleBuilder defines
CapsuleBuilderMethods == { "__init__", "build", "_select_pivots", "_assemble", "_get_model_row" }

\* the fields that class ContextCapsule declares
ContextCapsuleFields ==
    { "task", "intent", "pivot_models", "upstream_models", "downstream_models", "relevant_tests",
      "relevant_macros", "relevant_sources", "project_patterns", "similar_models",
      "session_context", "token_estimate", "token_budget" }

EntryModelArgs == { << >>, << "stg_a" >>, << "fct_b", "stg_a" >>, << "ghost" >> }

\* build(task, focus_model=..., entry_models=..., entry_paths=...): extra names
\* the keywords the call passes besides those of BuildRequest
EntryRequest(task, focus_model, bm25, extra, entry_models) ==
    [ BuildRequest(task, focus_model, 0, bm25) EXCEPT !.keywords = @ \cup extra ]
        @@ [ entry_models |-> entry_models ]

EntryStores == { IndexManifestOn(EmptyStore, M) : M \in GoodManifests } \cup { EmptyStore }

InitEntry ==
    /\ store \in EntryStores
    /\ conn = store
    /\ inTx = FALSE
    /\ pc = "idle"
    /\ manifest = NoManifest
    /\ done = store
    /\ before = store
    /\ outcome = "completed"
    /\ seen = NothingSeen
    /\ bfsCall = NoBfsCall
    /\ \E task \in { "", "fix fct_b test" }, focus_model \in { NoValue, "stg_a", "ghost" },
          bm25 \in { [ id \in ModelIds |-> 1 ] },
          extra \in { {}, { "entry_models" }, { "entry_models", "entry_paths" } },
          entry_models \in EntryModelArgs :
            /\ (extra = {} => entry_models = << >>)
            /\ capsule = EntryRequest(task, focus_model, bm25, extra, entry_models)
    /\ \E task \in { "", "fix fct_b test" }, focus_model \in { NoValue, "stg_a" },
          entry_models \in EntryModelArgs, limit \in { 1, 20 } :
            call = [ op |-> "discover", task |-> task, focus_model |-> focus_model,
                     entry_models |-> entry_models, limit |-> limit, returned |-> FALSE ]

\* builder.discover(task, ...): the attribute lookup on CapsuleBuilder fails
CallDiscover ==
    /\ call.op = "discover" /\ ~ call.returned
    /\ "discover" \notin CapsuleBuilderMethods
    /\ call' = [ call EXCEPT !.returned = TRUE ] @@ [ raised |-> "AttributeError" ]
    /\ UNCHANGED << store, conn, inTx, pc, manifest, done, before, outcome, seen, bfsCall, capsule >>

NextEntry == Build \/ BuildRaisesTypeError \/ CallDiscover

SpecEntry == InitEntry /\ [][NextEntry]_vars

\* the model that a name of entry_models resolves to
ResolvesByName(name) == \E m \in store.models : StrLower(m.name) = StrLower(name)

\* C16: build fills pivots in the order entry_paths, entry_models,
\* focus_model, search hits: every entry_models name that resolves to an
\* indexed model is in pivot_models (up to max_pivots), together with a
\* resolvable focus_model.
C16_EntryModelsBecomePivots ==
    (capsule.built /\ "entry_models" \in capsule.keywords) =>
        /\ capsule.raised = "none"
        /\ \A i \in 1..Min(Len(capsule.entry_models), max_pivots) :
               ResolvesByName(capsule.entry_models[i]) =>
                   \E k \in 1..Len(capsule.result.pivot_models) :
                       StrLower(capsule.result.pivot_models[k].name) = StrLower(capsule.entry_models[i])

\* C17: every capsule returned by build carries confidence in
\* {high, medium, low}, high whenever focus_model or an entry resolved, low
\* when no pivot was found, and suggested_refinements non-empty exactly when
\* confidence is low.
C17_CapsuleCarriesConfidence ==
    (capsule.built /\ capsule.keywords \subseteq BuildParameters) =>
        /\ capsule.raised = "none"
        /\ { "confidence", "suggested_refinements" } \subseteq ContextCapsuleFields
        /\ capsule.result.confidence \in { "high", "medium", "low" }
        /\ (capsule.focus_model # NoValue /\ ResolvesByName(capsule.focus_model))
               => capsule.result.confidence = "high"
        /\ capsule.pivot_ids = << >> => capsule.result.confidence = "low"
        /\ capsule.result.suggested_refinements # << >> <=> capsule.result.confidence = "low"

\* C18: discover(task, focus_model, entry_models, limit) returns at most
\* limit entries, no two with the same unique_id, each with relationship in
\* {pivot, upstream, downstream}, a resolvable focus_model or entry_models
\* name being tagged pivot.
C18_DiscoverListsPivotsAndNeighbours ==
    (call.op = "discover" /\ call.returned) =>
        /\ call.raised = "none"
        /\ Len(call.result) <= call.limit
        /\ \A i, j \in 1..Len(call.result) :
               call.result[i].unique_id = call.result[j].unique_id => i = j
        /\ \A i \in 1..Len(call.result) :
               call.result[i].relationship \in { "pivot", "upstream", "downstream" }
        /\ (call.focus_model # NoValue /\ ResolvesByName(call.focus_model)) =>
               \E i \in 1..Len(call.result) :
                   /\ StrLower(call.result[i].name) = StrLower(call.focus_model)
                   /\ call.result[i].relationship = "pivot"

---------------------------------------------------------------------------
(* CapsuleBuilder.build on every kind of input: the store may be           *)
(* unpopulated, its edges may hold cycles and self-loops, the task may be  *)
(* empty or hold no keyword or no word character.                          *)

\* "" is empty, "?!" holds no word character, "the" holds a stopword only,
\* "__" and "orders" hold no intent keyword
VagueTasks == { "", "?!", "the", "__", "orders", "stg_a", "fix fct_b test" }

AnyStores == { EmptyStore } \cup IndexedStores

InitAnyInput ==
    /\ store \in AnyStores
    /\ conn = store
    /\ inTx = FALSE
    /\ pc = "idle"
    /\ manifest = NoManifest
    /\ done = store
    /\ before = store
    /\ outcome = "completed"
    /\ seen = NothingSeen
    /\ bfsCall = NoBfsCall
    /\ call = NoCall
    /\ \E task \in VagueTasks, focus_model \in FocusModels, token_budget \in TokenBudgets,
          bm25 \in Bm25Inputs :
            capsule = BuildRequest(task, focus_model, token_budget, bm25)

SpecAnyInput == InitAnyInput /\ [][Build]_vars

HasCycle(edges) == \E e \in edges, f \in edges : e # f /\ e[1] = f[2] /\ e[2] = f[1]

\* C19: for every task (also empty, without keyword, without word
\* character), focus_model, token_budget and store (also unpopulated, also
\* with cycles and self-loops among the edges) build returns a capsule and
\* raises nothing; each list of the capsule holds only candidates of its
\* section, fewer of them when the budget is too small.
C19_BuildNeverRaises ==
    capsule.built =>
        /\ capsule.raised = "none"
        /\ IdsOf(capsule.result.pivot_models) \subseteq SeqToSet(capsule.pivot_ids)
        /\ IdsOf(capsule.result.upstream_models)
               \subseteq { capsule.upstream_ids[i][1] : i \in 1..Len(capsule.upstream_ids) }
        /\ IdsOf(capsule.result.downstream_models)
               \subseteq { capsule.downstream_ids[i][1] : i \in 1..Len(capsule.downstream_ids) }
        /\ Len(capsule.result.pivot_models) <= Len(capsule.pivot_ids)

\* a task without word characters on a store whose edges hold a cycle and a
\* self-loop, with a budget that leaves a selected pivot out
C19_Witness ==
    /\ capsule.built
    /\ capsule.task = "?!"
    /\ HasCycle(store.edges)
    /\ \E e \in store.edges : e[1] = e[2]
    /\ capsule.raised = "none"
    /\ Len(capsule.result.pivot_models) < Len(capsule.pivot_ids)

\* the unpopulated store and the empty task
C19_WitnessEmpty ==
    /\ capsule.built
    /\ store = EmptyStore
    /\ capsule.task = ""
    /\ capsule.raised = "none"
    /\ capsule.result.pivot_models = << >>

---------------------------------------------------------------------------
(* HybridSearch.search as a function of its arguments and the store: the   *)
(* arguments are fixed by the initial state and the call is made once.     *)

\* "" and "?!" make the MATCH query fail, "TG_" matches no row of the index
SearchQueries == { "", "?!", "TG_", "stg_a", "id x", "test stg_a id" }

SearchIntents == { "debug", "explore" }

SearchLimits == { 0, 1, 2, 5 }

SearchExcludes == SUBSET { "model.a", "model.b", "model.d" }

\* the bm25 values of model.a, model.b and model.c vary
SearchBm25 ==
    { [ id \in WideModelIds |-> IF id \in ModelIds THEN b[id] ELSE IF id = "model.d" THEN 2 ELSE 1 ] :
        b \in Bm25Inputs }

SearchStores == WideStores \cup { db \in IndexedStores : Cardinality(db.models) = 3 }

InitSearch ==
    /\ store \in SearchStores
    /\ conn = store
    /\ inTx = FALSE
    /\ pc = "idle"
    /\ manifest = NoManifest
    /\ done = store
    /\ before = store
    /\ outcome = "completed"
    /\ seen = NothingSeen
    /\ bfsCall = NoBfsCall
    /\ capsule = NoCapsule
    /\ \E query \in SearchQueries, intent \in SearchIntents, limit \in SearchLimits,
          exclude_ids \in SearchExcludes, bm25 \in SearchBm25 :
            call = [ op |-> "search", returned |-> FALSE, query |-> query, intent |-> intent,
                     limit |-> limit, exclude_ids |-> exclude_ids, bm25 |-> bm25,
                     result |-> << >> ]

\* HybridSearch.search(query, intent, limit, exclude_ids)
CallSearch ==
    /\ call.op = "search"
    /\ ~call.returned
    /\ call' = [ call EXCEPT !.returned = TRUE,
                             !.result = search(store, call.query, call.intent, call.limit,
                                               call.exclude_ids, call.bm25) ]
    /\ OnlyCallChanges

SpecSearch == InitSearch /\ [][CallSearch]_vars

\* the rows search ranks: those of the full-text phase, or of the LIKE scan
\* when that phase has none, without the excluded ones
KeptCandidates ==
    LET fts == _fts_phase(store, _tokenize_query(call.query), call.limit * 4, call.bm25)
        found == IF fts = << >> THEN _fallback_search(store, call.query, call.limit * 4) ELSE fts
    IN  SelectSeq(found, LAMBDA c : c.unique_id \notin call.exclude_ids)

\* C20: search returns at most limit results, none of an excluded id, no id
\* twice, in non-increasing order of score; the BM25 part of each score is
\* normalised over the candidates that are left after the exclusion.
C20_SearchResultContract ==
    call.op = "search" /\ call.returned =>
        \A r \in { call.result } :
        \A scores \in { { c.bm25_score : c \in SeqToSet(KeptCandidates) } } :
        \A mn \in { v \in scores : \A w \in scores : ~RLt(w, v) },
           mx \in { v \in scores : \A w \in scores : ~RLt(v, w) } :
            /\ Len(r) <= call.limit
            /\ \A i \in 1..Len(r) : r[i].unique_id \notin call.exclude_ids
            /\ \A i, j \in 1..Len(r) : r[i].unique_id = r[j].unique_id => i = j
            /\ \A i \in 1..(Len(r) - 1) : ~RLt(r[i].score, r[i + 1].score)
            /\ \A i \in 1..Len(r) :
                   \A norm \in { IF mn = mx THEN Real(1, 1)
                                  ELSE RDiv(RSub(r[i].bm25_score, mn), RSub(mx, mn)) } :
                   r[i].score = RAdd(RAdd(RMul(norm, Real(55, 100)),
                                          RMul(r[i].centrality, Real(20, 100))),
                                     RAdd(RMul(r[i].layer_boost, Real(10, 100)),
                                          RMul(r[i].name_bonus, Real(15, 100))))

\* the full-text phase found an excluded model whose bm25 score lies above
\* that of every model returned, and more models were left than the limit
C20_Witness ==
    /\ call.op = "search" /\ call.returned
    /\ Len(call.result) = call.limit
    /\ Len(call.result) >= 2
    /\ Len(KeptCandidates) > call.limit
    /\ \E x \in call.exclude_ids :
          /\ \E m \in store.models : m.unique_id = x
          /\ \E row \in store.search_index :
                row.unique_id = x /\ FtsMatch(row, _tokenize_query(call.query))
          /\ \A i \in 1..Len(call.result) :
                RLt(call.result[i].bm25_score, Real(call.bm25[x], 1))
    /\ \E i \in 1..(Len(call.result) - 1) : RLt(call.result[i + 1].score, call.result[i].score)

\* the LIKE scan supplied the candidates
C20_WitnessFallback ==
    /\ call.op = "search" /\ call.returned
    /\ call.query = ""
    /\ call.exclude_ids # {}
    /\ Len(call.result) >= 2

\* the models the full-text query finds: none when the expression is rejected
FtsFoundIds ==
    IF FtsSyntaxError(_tokenize_query(call.query)) THEN {}
    ELSE { row.unique_id : row \in { x \in store.search_index :
               /\ x.name \in FtsTerms(_tokenize_query(call.query))
                    \/ x.column_names \cap FtsTerms(_tokenize_query(call.query)) # {}
               /\ \E m \in store.models : m.unique_id = x.unique_id } }

\* the models whose lower-cased name is LIKE %query% (descriptions are empty)
LikeFoundIds ==
    { m.unique_id : m \in { x \in store.models :
                               LikeContains(StrLower(x.name), StrLower(call.query)) } }

C21_WitnessRaises ==
    /\ call.op = "search" /\ call.returned
    /\ FtsSyntaxError(_tokenize_query(call.query))
    /\ Len(call.result) >= 2

C21_WitnessFtsOnly ==
    /\ call.op = "search" /\ call.returned
    /\ FtsFoundIds # {}
    /\ LikeFoundIds # FtsFoundIds
    /\ call.result # << >>

---------------------------------------------------------------------------
(* The lists of a returned capsule, on the stores of five models           *)

NamesOf(recs) == { recs[i].name : i \in 1..Len(recs) }

\* C22: similar_models of a returned capsule holds at most 5 names, none of
\* them the name of a model of pivot_models, upstream_models or
\* downstream_models.
C22_SimilarModelsApart ==
    capsule.built /\ capsule.raised = "none" =>
        /\ Len(capsule.similar_models) <= 5
        /\ \A i \in 1..Len(capsule.similar_models) :
               capsule.similar_models[i] \notin
                   NamesOf(capsule.result.pivot_models)
                     \cup NamesOf(capsule.result.upstream_models)
                     \cup NamesOf(capsule.result.downstream_models)

\* the task's terms match models of every section and one more
C22_Witness ==
    /\ capsule.built /\ capsule.raised = "none"
    /\ capsule.similar_models # << >>
    /\ capsule.result.pivot_models # << >>
    /\ capsule.result.upstream_models # << >> \/ capsule.result.downstream_models # << >>

---------------------------------------------------------------------------
(* patterns.py: test coverage.  The stores are ingested from manifests     *)
(* whose tests name documented columns, undocumented columns or none.      *)

\* round(x, 1) of x = 100 * tested / total, in tenths of a percent (halves to even)
RoundTenths(tested, total) ==
    LET q == (1000 * tested) \div total
        r == (1000 * tested) % total
    IN  IF 2 * r > total \/ (2 * r = total /\ q % 2 = 1) THEN q + 1 ELSE q

\* COUNT(DISTINCT t.model_id || ':' || t.column_name) over the given tests; a
\* NULL model_id makes the concatenation NULL, which COUNT leaves out
TestedPairs(tests) ==
    { << t.model_id, t.column_name >> :
        t \in { u \in tests : u.column_name # "" /\ u.model_id # SqlNull } }

_extract_coverage_by_layer(db) ==
    [ layer \in { "staging", "intermediate", "marts", "other" } |->
        LET in_layer == { m.unique_id : m \in { x \in db.models : x.layer = layer } }
            total_cols == Cardinality({ c \in db.columns : c.model_id \in in_layer })
            tested_cols == Cardinality(TestedPairs({ t \in db.tests : t.model_id \in in_layer }))
        IN  IF total_cols > 0 THEN RoundTenths(tested_cols, total_cols) ELSE 0 ]

\* coverage_pct of get_stats: int(tested_cols / total_cols * 100)
StatsCoveragePct(db) ==
    LET total_cols == Cardinality(db.columns)
        tested_cols == Cardinality(TestedPairs(db.tests))
    IN  IF total_cols > 0 THEN (tested_cols * 100) \div total_cols ELSE 0

CoverageColumns == { "", "id", "ghost" }

CoverageManifests ==
    { [ valid_json |-> TRUE, metadata |-> "gen1",
        nodes |-> { ModelNodeA(a), ModelNodeB(b),
                    GenericTest("test.t1", "not_null", "model.a", c1),
                    GenericTest("test.t2", "unique", m2, c2) },
        sources |-> {}, macros |-> {}, exposures |-> {}, parent_map |-> {} ] :
        a \in { {}, { "id" }, { "id", "x" } }, b \in { {}, { "id" } },
        c1 \in CoverageColumns, m2 \in { "model.a", "model.b" }, c2 \in CoverageColumns }

InitCoverage ==
    /\ store \in { IndexManifestOn(EmptyStore, M) : M \in CoverageManifests }
    /\ conn = store
    /\ inTx = FALSE
    /\ pc = "idle"
    /\ manifest = NoManifest
    /\ done = store
    /\ before = store
    /\ outcome = "completed"
    /\ seen = NothingSeen
    /\ bfsCall = NoBfsCall
    /\ capsule = NoCapsule
    /\ call = NoCall

\* PatternExtractor.get_patterns(): its test_coverage_by_layer
CallGetPatterns ==
    /\ call = NoCall
    /\ call' = [ op |-> "get_patterns", returned |-> TRUE,
                 test_coverage_by_layer |-> _extract_coverage_by_layer(store) ]
    /\ OnlyCallChanges

\* PatternExtractor.get_stats(): its test_coverage_pct
CallGetStats ==
    /\ call = NoCall
    /\ call' = [ op |-> "get_stats", returned |-> TRUE,
                 test_coverage_pct |-> StatsCoveragePct(store) ]
    /\ OnlyCallChanges

NextCoverage == CallGetPatterns \/ CallGetStats

SpecCoverage == InitCoverage /\ [][NextCoverage]_vars

\* C23: every value of test_coverage_by_layer (in tenths of a percent) and
\* test_coverage_pct lies between 0 and 100 percent, and is 0 for a layer or
\* project without columns.
C23_CoverageWithinPercent ==
    /\ call.op = "get_patterns" =>
          \A layer \in DOMAIN call.test_coverage_by_layer :
              /\ call.test_coverage_by_layer[layer] \in 0..1000
              /\ (~ \E c \in store.columns, m \in store.models :
                       m.layer = layer /\ c.model_id = m.unique_id)
                    => call.test_coverage_by_layer[layer] = 0
    /\ call.op = "get_stats" =>
          /\ call.test_coverage_pct \in 0..100
          /\ store.columns = {} => call.test_coverage_pct = 0

---------------------------------------------------------------------------
(* _detect_layer as a function of fqn, name and config tags                *)

FqnSegments == { "pkg", "Staging", "models/stg", "marts", "utils" }

MaxFqnLen == 3

LayerFqns == UNION { [ 1..n -> FqnSegments ] : n \in 1..MaxFqnLen }

LayerNames == { "stg_orders", "FCT_orders", "interim", "my_model" }

LayerTags == { {}, { "staging" }, { "Report" } }

InitLayer ==
    /\ store = EmptyStore
    /\ conn = EmptyStore
    /\ inTx = FALSE
    /\ pc = "idle"
    /\ manifest = NoManifest
    /\ done = EmptyStore
    /\ before = EmptyStore
    /\ outcome = "none"
    /\ seen = NothingSeen
    /\ bfsCall = NoBfsCall
    /\ capsule = NoCapsule
    /\ \E fqn \in LayerFqns, name \in LayerNames, tags \in LayerTags :
          call = [ op |-> "_detect_layer", returned |-> FALSE, fqn |-> fqn, name |-> name,
                   tags |-> tags, result |-> "" ]

\* _detect_layer(fqn, name, {"tags": tags})
CallDetectLayer ==
    /\ call.op = "_detect_layer"
    /\ ~call.returned
    /\ call' = [ call EXCEPT !.returned = TRUE,
                             !.result = _detect_layer(call.fqn, call.name, call.tags) ]
    /\ OnlyCallChanges

SpecLayer == InitLayer /\ [][CallDetectLayer]_vars

\* the candidates of the call: the fqn segments after the first, the name
\* and the tags, lower-cased
LayerCandidates ==
    { StrLower(call.fqn[i]) : i \in 2..Len(call.fqn) }
        \cup { StrLower(call.name) } \cup { StrLower(t) : t \in call.tags }

\* some candidate equals kw, starts with kw, or contains "/" followed by kw,
\* for a keyword kw of the layer
LayerMatches(layer) ==
    \E c \in LayerCandidates, kw \in _LAYER_KEYWORDS[layer] :
        \/ c = kw
        \/ Len(c) >= Len(kw) /\ SubSeq(c, 1, Len(kw)) = kw
        \/ \E i \in 1..(Len(c) - Len(kw)) :
              SubSeq(c, i, i) = "/" /\ SubSeq(c, i + 1, i + Len(kw)) = kw

\* C24: the layer is staging if a candidate matches a staging keyword, else
\* intermediate if one matches an intermediate keyword, else marts if one
\* matches a marts keyword, else other.
C24_LayerByFirstMatchingKeywordList ==
    call.op = "_detect_layer" /\ call.returned =>
        call.result = IF LayerMatches("staging") THEN "staging"
                      ELSE IF LayerMatches("intermediate") THEN "intermediate"
                      ELSE IF LayerMatches("marts") THEN "marts"
                      ELSE "other"

\* a staging match by "/stg" inside a path segment wins over a marts match
\* of the upper-case name
C24_Witness ==
    /\ call.op = "_detect_layer" /\ call.returned
    /\ call.result = "staging"
    /\ call.name = "FCT_orders"
    /\ call.tags = {}
    /\ \A i \in 2..Len(call.fqn) : call.fqn[i] \in { "models/stg", "utils" }
    /\ LayerMatches("marts")

\* the package name is no candidate
C24_WitnessPackageSkipped ==
    /\ call.op = "_detect_layer" /\ call.returned
    /\ call.fqn = << "Staging" >>
    /\ call.result = "other"

C24_WitnessIntermediate ==
    /\ call.op = "_detect_layer" /\ call.returned
    /\ call.name = "interim"
    /\ call.result = "intermediate"

---------------------------------------------------------------------------
(* The packing of the three model tiers                                    *)

\* the ids of `ids` that have a models row, in order
WithRow(ids) == SelectSeq(ids, LAMBDA uid : _get_model_row(store, uid) # NoRow)

\* sorted(ids.items(), key=lambda x: x[1]): the ids in ascending distance
ByDistance(ids) ==
    LET sorted == StableSort(ids, { p \in Pairs(ids) : ids[p[1]][2] < ids[p[2]][2] })
    IN  WithRow([ i \in 1..Len(sorted) |-> sorted[i][1] ])

\* `included` is the longest prefix of `candidates` whose summed cost stays
\* within `bucket`; cost[i] is the cost of candidates[i]
IsPackedPrefix(included, candidates, cost, bucket) ==
    /\ Len(included) <= Len(candidates)
    /\ \A i \in 1..Len(included) : included[i].unique_id = candidates[i]
    /\ SumOver(1..Len(included), cost) <= bucket
    /\ Len(included) < Len(candidates)
          => SumOver(1..(Len(included) + 1), cost) > bucket

\* C25: in each tier the included models are a prefix of the tier's
\* candidates (pivots in resolution order, upstream and downstream models
\* in ascending distance): packing stops at the first candidate that would
\* take the tier over its bucket, and the summed cost is at most the bucket.
C25_TiersArePackedPrefixes ==
    capsule.built /\ capsule.raised = "none" =>
        \A pivots \in { WithRow(capsule.pivot_ids) },
           ups \in { ByDistance(capsule.upstream_ids) },
           downs \in { ByDistance(capsule.downstream_ids) } :
            /\ IsPackedPrefix(capsule.result.pivot_models, pivots,
                   [ i \in 1..Len(pivots) |->
                       _estimate_dict_tokens(_build_full_model(
                           _get_model_row(store, pivots[i]), get_columns(store, pivots[i]),
                           get_tests_for_model(store, pivots[i]))) ],
                   AllocShare(capsule.result.token_budget, 45))
            /\ IsPackedPrefix(capsule.result.upstream_models, ups,
                   [ i \in 1..Len(ups) |->
                       _estimate_dict_tokens(_build_skeleton_model(
                           _get_model_row(store, ups[i]), get_columns(store, ups[i]))) ],
                   AllocShare(capsule.result.token_budget, 20))
            /\ IsPackedPrefix(capsule.result.downstream_models, downs,
                   [ i \in 1..Len(downs) |->
                       _estimate_dict_tokens(_build_minimal_model(
                           _get_model_row(store, downs[i]), get_columns(store, downs[i]))) ],
                   AllocShare(capsule.result.token_budget, 10))

---------------------------------------------------------------------------
(* The packing of tests and macros                                         *)

\* the summed token estimate of a list of dicts
TokensOf(items) ==
    SumOver(1..Len(items), [ i \in 1..Len(items) |-> _estimate_dict_tokens(items[i]) ])

\* C26: the summed token estimate of relevant_tests is at most half of the
\* tests+macros bucket, and that of relevant_macros at most the other half.
C26_TestsAndMacrosKeepToTheirHalves ==
    capsule.built /\ capsule.raised = "none" =>
        \A bucket \in { AllocShare(capsule.result.token_budget, 10) } :
            /\ TokensOf(capsule.result.relevant_tests) <= bucket \div 2
            /\ TokensOf(capsule.result.relevant_macros) <= bucket - bucket \div 2

---------------------------------------------------------------------------
(* _node_to_test as a function of the test node                            *)

TestMetadataNames ==
    { "not_null", "unique", "accepted_values", "relationships", "expression_is_true", "NOT_NULL" }

TestNodeNames == { "t", "unique", "assert_positive" }

MaxDeps == 2

TestDeps == UNION { [ 1..n -> { "source.s", "model.a", "model.b" } ] : n \in 0..MaxDeps }

InitTestNode ==
    /\ store = EmptyStore
    /\ conn = EmptyStore
    /\ inTx = FALSE
    /\ pc = "idle"
    /\ manifest = NoManifest
    /\ done = EmptyStore
    /\ before = EmptyStore
    /\ outcome = "none"
    /\ seen = NothingSeen
    /\ bfsCall = NoBfsCall
    /\ capsule = NoCapsule
    /\ \E kind \in TestMetadataNames, name \in TestNodeNames, deps \in TestDeps :
          \E node \in { [ GenericTest("test.t1", kind, "model.a", "id")
                            EXCEPT !.name = name, !.depends_on = deps ],
                         SingularTest("test.t1", name, deps) } :
              call = [ op |-> "_node_to_test", returned |-> FALSE, node |-> node ]

\* Indexer._node_to_test(uid, node)
CallNodeToTest ==
    /\ call.op = "_node_to_test"
    /\ ~call.returned
    /\ call' = [ op |-> "_node_to_test", returned |-> TRUE, node |-> call.node,
                 result |-> _node_to_test(call.node) ]
    /\ OnlyCallChanges

SpecTestNode == InitTestNode /\ [][CallNodeToTest]_vars

\* C27: a test node with test_metadata gets the metadata's name as its type
\* when that is one of not_null, unique, accepted_values, relationships, and
\* generic otherwise; a node without test_metadata gets singular, whatever
\* its own name is; its model is the first depends_on.nodes entry that
\* starts with "model." (none if there is no such entry).
C27_TestClassification ==
    call.op = "_node_to_test" /\ call.returned =>
        /\ call.result.test_type =
              IF ~call.node.test_metadata.present THEN "singular"
              ELSE IF call.node.test_metadata.name
                        \in { "not_null", "unique", "accepted_values", "relationships" }
                   THEN call.node.test_metadata.name
                   ELSE "generic"
        /\ \A deps \in { call.node.depends_on } :
              IF \E i \in 1..Len(deps) : StrStartsWith(deps[i], "model.")
              THEN \E i \in 1..Len(deps) :
                      /\ call.result.model_id = deps[i]
                      /\ StrStartsWith(deps[i], "model.")
                      /\ \A j \in 1..(i - 1) : ~StrStartsWith(deps[j], "model.")
              ELSE call.result.model_id = SqlNull

---------------------------------------------------------------------------
(* index_manifest on manifests whose model node has refs and sources       *)
(* entries of every shape                                                  *)

RefShapes ==
    { JsonEntry("string", "stg_a", << >>, FALSE),
      JsonEntry("list", "", << "stg_a", "v2" >>, FALSE),
      JsonEntry("list", "", << >>, FALSE),
      JsonEntry("object", "stg_a", << >>, TRUE),
      JsonEntry("object", "", << >>, FALSE),
      JsonEntry("number", "7", << >>, FALSE) }

MaxRefs == 2

RefManifests ==
    { [ valid_json |-> TRUE, metadata |-> "gen1",
        nodes |-> { ModelNodeB({ "id" }) @@ [ refs |-> refs, sources |-> sources ] },
        sources |-> {}, macros |-> {}, exposures |-> {}, parent_map |-> {} ] :
        refs \in UNION { [ 1..n -> RefShapes ] : n \in 0..MaxRefs },
        sources \in UNION { [ 1..n -> RefShapes ] : n \in 0..1 } }

NextRefs ==
    \/ \E M \in RefManifests : LoadManifest(M)
    \/ IndexManifestStep

SpecRefs == Init /\ [][NextRefs]_vars

\* C28: a refs or sources entry of any shape in a model node never makes
\* index_manifest fail: ingestion of the whole manifest completes.
C28_OddRefsNeverFatal ==
    manifest \in RefManifests => outcome # "failed"

---------------------------------------------------------------------------
(* build with a focus_model, followed by the same call without it          *)

NextFocus == Build \/ BuildWithoutFocus

SpecFocus == InitBuild /\ [][NextFocus]_vars

\* C29: when focus_model matches no indexed model by name or by unique id,
\* build raises nothing and returns the capsule that the same call without
\* focus_model returns.
C29_UnresolvedFocusChangesNothing ==
    capsule.built /\ capsule.focus_model # NoValue /\ ~FocusResolves =>
        /\ capsule.raised = "none"
        /\ call # NoCall => call = [ capsule EXCEPT !.focus_model = NoValue ]

\* both calls returned, the name matched no model, and the search still
\* supplied pivots
C29_Witness ==
    /\ capsule.built /\ capsule.focus_model = "ghost" /\ ~FocusResolves
    /\ call # NoCall
    /\ call.built
    /\ capsule.pivot_ids # << >>
    /\ capsule.result.pivot_models # << >>

\* a unique id of a model the store does not hold
C29_WitnessUnknownId ==
    /\ capsule.built /\ capsule.focus_model = "model.c" /\ ~FocusResolves
    /\ call # NoCall

---------------------------------------------------------------------------
(* What the capsule's tests and neighbours belong to                       *)

\* the ids that _bfs reaches from start within depth
ReachedWithin(start, direction, depth) ==
    { p[1] : p \in SeqToSet(_bfs(store.edges, start, direction, depth)) }

\* C30: each entry of relevant_tests is a test of a model listed in
\* pivot_models, and each model of upstream_models or downstream_models is
\* within the intent's depth of a model listed in pivot_models.
C30_ContextBelongsToListedPivots ==
    capsule.built /\ capsule.raised = "none" =>
        \A listed \in { IdsOf(capsule.result.pivot_models) } :
            /\ \A i \in 1..Len(capsule.result.relevant_tests) :
                   \E t \in store.tests :
                       /\ t.unique_id = capsule.result.relevant_tests[i].unique_id
                       /\ t.model_id \in listed
            /\ \A i \in 1..Len(capsule.result.upstream_models) :
                   \E pid \in listed :
                       capsule.result.upstream_models[i].unique_id
                           \in ReachedWithin(pid, "up", intent_depths[capsule.intent].upstream)
            /\ \A i \in 1..Len(capsule.result.downstream_models) :
                   \E pid \in listed :
                       capsule.result.downstream_models[i].unique_id
                           \in ReachedWithin(pid, "down", intent_depths[capsule.intent].downstream)

====
